---- MODULE Spec2Model ----
(***************************************************************************)
(* The incremental render pipeline of theymer: the Index (content-hash     *)
(* manifest), the write decision and the render session, as a state        *)
(* machine.  One project lives on disk: its output files, its directories  *)
(* and the persisted Index.  A run (render::all) loads the Index, calls    *)
(* write once per (theme, scheme, template, swatch) and saves the Index.   *)
(* Between the steps of a run a human may edit any output file; between    *)
(* runs the theme, scheme and template inputs may change.                  *)
(*                                                                         *)
(* Strings are sequences of tokens; Option values are sequences of length  *)
(* at most one (None == <<>>, Some(x) == <<x>>).                           *)
(***************************************************************************)
EXTENDS Integers, Sequences, FiniteSets, TLC

\* ------------------------------------------------------------------ bounds

\* File contents are the numbers 0..MaxContent.
MaxContent == 1
\* Every input (theme ascii name, scheme body, template source) has a revision
\* in 1..MaxRev.
MaxRev == 2

Contents == 0..MaxContent
Revs == 1..MaxRev

\* ------------------------------------------------------------------ Option

None == <<>>
Some(x) == <<x>>
IsSome(o) == o # <<>>
Unwrap(o) == o[1]
Option(S) == {None} \cup {Some(x) : x \in S}

\* ------------------------------------------------------------------ strings

RECURSIVE Flatten(_)
\* The concatenation of a sequence of sequences.
Flatten(ss) == IF ss = <<>> THEN <<>> ELSE Head(ss) \o Flatten(Tail(ss))

\* str::replace(from, to) over a token string: every token equal to `from`
\* is replaced by the tokens of `to`.
Replace(s, from, to) ==
    Flatten([i \in 1..Len(s) |-> IF s[i] = from THEN to ELSE <<s[i]>>])

\* str::contains(marker) over the segments of a name.
Contains(name, marker) ==
    \E i \in 1..Len(name) : \E j \in 1..Len(name[i]) : name[i][j] = marker

THEME_MARKER == "THEME"
SCHEME_MARKER == "SCHEME"
SWATCH_MARKER == "SWATCH"
JINJA_TEMPLATE_SUFFIX == ".jinja"
SKIP_RENDERING_PREFIX == "_"

\* ------------------------------------------------------------------ hashing

\* manifest::hash: a deterministic, collision-resistant digest.
Hash(x) == <<"digest", x>>

\* serde_json::to_string_pretty(theme): the fields `schemes` and `config`
\* are #[serde(skip)], the two names are renamed.
ThemeJson(theme) == [theme |-> theme.name, theme_ascii |-> theme.name_ascii]

\* serde_json::to_string_pretty(scheme): the whole resolved scheme.
SchemeJson(scheme) ==
    [scheme |-> scheme.name, palette |-> scheme.palette, body |-> scheme.body]

\* hash_theme over every field of the theme, the skipped ones too.
hash_theme_whole(theme) == Hash(theme)

hash_theme(theme) == Hash(ThemeJson(theme))

hash_scheme(scheme) == Hash(SchemeJson(scheme))

hash_template(template) == Hash(template.source)

\* ------------------------------------------------------------------ paths

\* A template name is a sequence of '/'-separated segments, each a token
\* string; a directory is a sequence of segments; an output path is a
\* directory and a file name.
StripSuffix(name) ==
    LET last == name[Len(name)]
    IN  IF last # <<>> /\ last[Len(last)] = JINJA_TEMPLATE_SUFFIX
        THEN [name EXCEPT ![Len(name)] = SubSeq(last, 1, Len(last) - 1)]
        ELSE name

\* Path::new(s) drops a trailing empty component ("a/" is "a").
Components(name) ==
    IF name # <<>> /\ name[Len(name)] = <<>>
    THEN SubSeq(name, 1, Len(name) - 1)
    ELSE name

Ok(v) == [ok |-> TRUE, val |-> v]
Err(e) == [ok |-> FALSE, err |-> e]

uses_swatch_iteration(template_name) == Contains(template_name, SWATCH_MARKER)

\* should_render that looks at the first segment of the name only.
should_render_first_segment(name) ==
    ~ (name # <<>> /\ name[1] # <<>> /\ name[1][1] = SKIP_RENDERING_PREFIX)

should_render(name) ==
    ~ \E i \in 1..Len(name) :
          name[i] # <<>> /\ name[i][1] = SKIP_RENDERING_PREFIX

\* resolve_path that leaves the scheme marker in the file name.
resolve_path_theme_only(theme, template_name, scheme_name, config, swatch_name) ==
    LET relative_path == Components(StripSuffix(template_name))
    IN  IF relative_path = <<>>
        THEN Err("InternalBug")
        ELSE
        LET filename == relative_path[Len(relative_path)]
            parent_dirs == SubSeq(relative_path, 1, Len(relative_path) - 1)
            named == Replace(filename, THEME_MARKER, theme.name)
            render == IF swatch_name = None
                      THEN named
                      ELSE Replace(named, SWATCH_MARKER, Unwrap(swatch_name))
        IN  IF IsSome(theme.config)
            THEN Ok([dir |-> Unwrap(theme.config).dirs.render \o parent_dirs,
                     file |-> render])
            ELSE Err("panic")

resolve_path(theme, template_name, scheme_name, config, swatch_name) ==
    LET relative_path == Components(StripSuffix(template_name))
    IN  IF relative_path = <<>>
        THEN Err("InternalBug")
        ELSE
        LET filename == relative_path[Len(relative_path)]
            parent_dirs == SubSeq(relative_path, 1, Len(relative_path) - 1)
            named == Replace(Replace(filename, THEME_MARKER, theme.name),
                             SCHEME_MARKER, scheme_name)
            render == IF swatch_name = None
                      THEN named
                      ELSE Replace(named, SWATCH_MARKER, Unwrap(swatch_name))
        IN  IF IsSome(theme.config)
            THEN Ok([dir |-> Unwrap(theme.config).dirs.render \o parent_dirs,
                     file |-> render])
            ELSE IF config.project.type = "Polytheme"
                 THEN Err("panic")
                 ELSE IF config.project.render_all_into = None
                      THEN Err("panic")
                      ELSE Ok([dir |-> Unwrap(config.project.render_all_into)
                                          \o parent_dirs,
                               file |-> render])

\* ------------------------------------------------------------------ Index

\* Manifest<Entry>: a map from output path to Entry.
EmptyIndex == [p \in {} |-> p]

get(index, path) ==
    IF path \in DOMAIN index THEN Some(index[path]) ELSE None

insert(index, entry) ==
    [p \in DOMAIN index \cup {entry.path} |->
        IF p = entry.path THEN entry ELSE index[p]]

\* The file at `path`: None when it does not exist.
ReadFile(files, path) ==
    IF path \in DOMAIN files THEN Some(files[path]) ELSE None

\* manifest::check_status: the file's hash against the stored render hash
\* first (a missing file does not match), the staleness test second.
check_status(files, path, hash, is_stale) ==
    LET file == ReadFile(files, path)
    IN  IF file = None \/ Hash(Unwrap(file)) # hash
        THEN "Modified"
        ELSE IF is_stale THEN "Stale" ELSE "Unchanged"

\* check with the staleness test taken before the file's hash is looked at.
check_stale_first(index, files, path, theme, scheme, template) ==
    LET entry == get(index, path)
    IN  IF entry = None
        THEN "NotTracked"
        ELSE IF \/ hash_theme(theme) # Unwrap(entry).theme_hash
                \/ hash_scheme(scheme) # Unwrap(entry).scheme_hash
                \/ hash_template(template) # Unwrap(entry).template_hash
             THEN "Stale"
             ELSE check_status(files, path, Unwrap(entry).render_hash, FALSE)

\* check with the three hash comparisons joined by "and".
check_all_differ(index, files, path, theme, scheme, template) ==
    LET entry == get(index, path)
    IN  IF entry = None
        THEN "NotTracked"
        ELSE check_status(files, path, Unwrap(entry).render_hash,
                 /\ hash_theme(theme) # Unwrap(entry).theme_hash
                 /\ hash_scheme(scheme) # Unwrap(entry).scheme_hash
                 /\ hash_template(template) # Unwrap(entry).template_hash)

\* check that takes a path whose file is missing for one never rendered.
check_missing_untracked(index, files, path, theme, scheme, template) ==
    LET entry == get(index, path)
    IN  IF entry = None \/ ReadFile(files, path) = None
        THEN "NotTracked"
        ELSE check_status(files, path, Unwrap(entry).render_hash,
                 \/ hash_theme(theme) # Unwrap(entry).theme_hash
                 \/ hash_scheme(scheme) # Unwrap(entry).scheme_hash
                 \/ hash_template(template) # Unwrap(entry).template_hash)

\* check that protects a file it has no entry for.
check_existing_is_modified(index, files, path, theme, scheme, template) ==
    LET entry == get(index, path)
    IN  IF entry = None
        THEN IF ReadFile(files, path) = None THEN "NotTracked" ELSE "Modified"
        ELSE check_status(files, path, Unwrap(entry).render_hash,
                 \/ hash_theme(theme) # Unwrap(entry).theme_hash
                 \/ hash_scheme(scheme) # Unwrap(entry).scheme_hash
                 \/ hash_template(template) # Unwrap(entry).template_hash)

check(index, files, path, theme, scheme, template) ==
    LET entry == get(index, path)
    IN  IF entry = None
        THEN "NotTracked"
        ELSE check_status(files, path, Unwrap(entry).render_hash,
                 \/ hash_theme(theme) # Unwrap(entry).theme_hash
                 \/ hash_scheme(scheme) # Unwrap(entry).scheme_hash
                 \/ hash_template(template) # Unwrap(entry).template_hash)

\* create_entry with the theme and scheme hashes stored in each other's field.
create_entry_swapped(path, theme, scheme, template, content) ==
    [path |-> path,
     template |-> template.name,
     theme |-> theme.name,
     scheme |-> scheme.name,
     render_hash |-> Hash(content),
     template_hash |-> hash_template(template),
     theme_hash |-> hash_scheme(scheme),
     scheme_hash |-> hash_theme(theme)]

create_entry(path, theme, scheme, template, content) ==
    [path |-> path,
     template |-> template.name,
     theme |-> theme.name,
     scheme |-> scheme.name,
     render_hash |-> Hash(content),
     template_hash |-> hash_template(template),
     theme_hash |-> hash_theme(theme),
     scheme_hash |-> hash_scheme(scheme)]

\* ------------------------------------------------------------------ decision

FileStatus == {"NotTracked", "Unchanged", "Stale", "Modified"}
WriteMode == {"Normal", "Force"}
Decision == {"Write", "ForceWrite", "Skip", "Conflict"}

\* strategy::decide
decide(status, write_mode) ==
    CASE status = "NotTracked" -> "Write"
      [] status = "Stale" -> "Write"
      [] status = "Unchanged" ->
            IF write_mode = "Force" THEN "ForceWrite" ELSE "Skip"
      [] status = "Modified" ->
            IF write_mode = "Force" THEN "ForceWrite" ELSE "Conflict"

\* Decision::should_write
should_write(decision) == decision \in {"Write", "ForceWrite"}

\* ------------------------------------------------------------------ file system

\* fs::create_dir_all: the directory and every ancestor of it.
create_dir_all(dirs, dir) == dirs \cup {SubSeq(dir, 1, k) : k \in 1..Len(dir)}

\* fs::write
write_file(files, path, content) ==
    [p \in DOMAIN files \cup {path} |->
        IF p = path THEN content ELSE files[p]]

\* output::format: the external post-write formatter, a normalisation of the
\* content (odd contents are rewritten to the even one below).
Format(content) == content - (content % 2)

format(files, path) == write_file(files, path, Format(files[path]))

\* ------------------------------------------------------------------ merge

\* The longest palette, role list, rainbow and user provider list.
MaxLen == 2

\* Sequences of length at most n over S.
SeqUpTo(S, n) == UNION {[1..k -> S] : k \in 0..n}

\* impl Merge for Option<T>: self.or(base)
merge_option(self, base) == IF IsSome(self) THEN self ELSE base

\* impl_merge_for_all_fields!(Meta { .. })
merge_meta(self, base) ==
    [author |-> merge_option(self.author, base.author),
     author_ascii |-> merge_option(self.author_ascii, base.author_ascii),
     license |-> merge_option(self.license, base.license),
     license_ascii |-> merge_option(self.license_ascii, base.license_ascii),
     blurb |-> merge_option(self.blurb, base.blurb),
     blurb_ascii |-> merge_option(self.blurb_ascii, base.blurb_ascii)]

\* The Extra merge that joins the two lists.
merge_extra_joining(self, base) == [rainbow |-> base.rainbow \o self.rainbow]

\* impl Merge for Extra
merge_extra(self, base) ==
    [rainbow |-> IF self.rainbow = <<>> THEN base.rainbow ELSE self.rainbow]

\* IndexSet::insert: a swatch whose name the set holds already is dropped.
index_set_insert(set, swatch) ==
    IF \E i \in 1..Len(set) : set[i].name = swatch.name
    THEN set
    ELSE Append(set, swatch)

\* IndexSet::replace: the swatch takes the place of the one of its name, or
\* goes to the end when the set has none (swatches are equal by name).
index_set_replace(set, swatch) ==
    IF \E i \in 1..Len(set) : set[i].name = swatch.name
    THEN [i \in 1..Len(set) |->
             IF set[i].name = swatch.name THEN swatch ELSE set[i]]
    ELSE Append(set, swatch)

RECURSIVE merge_palette_insert(_, _)
\* Palette merge with insert in the place of replace.
merge_palette_insert(self, base) ==
    IF self = <<>>
    THEN base
    ELSE merge_palette_insert(Tail(self), index_set_insert(base, Head(self)))

RECURSIVE merge_palette(_, _)
\* impl Merge for Palette: base, with every swatch of self replaced into it.
merge_palette(self, base) ==
    IF self = <<>>
    THEN base
    ELSE merge_palette(Tail(self), index_set_replace(base, Head(self)))

\* The collection behind Roles: ordered, duplicates kept; extend appends
\* every item at the end.
roles_extend(roles, items) == roles \o items

\* The Roles merge with base extending self.
merge_roles_self_first(self, base) == roles_extend(self, base)

\* impl Merge for Roles: base.0.extend(self.0)
merge_roles(self, base) == roles_extend(base, self)

\* impl_merge_for_all_fields!(RawScheme { .. })
merge_raw_scheme(self, base) ==
    [scheme |-> merge_option(self.scheme, base.scheme),
     scheme_ascii |-> merge_option(self.scheme_ascii, base.scheme_ascii),
     meta |-> merge_meta(self.meta, base.meta),
     palette |-> merge_palette(self.palette, base.palette),
     roles |-> merge_roles(self.roles, base.roles),
     extra |-> merge_extra(self.extra, base.extra)]

\* Provider merge with base's fields taken first.
merge_provider_base_first(self, base) ==
    [host |-> self.host,
     blob_path |-> merge_option(base.blob_path, self.blob_path),
     raw_path |-> merge_option(base.raw_path, self.raw_path),
     branch |-> merge_option(base.branch, self.branch)]

\* impl Merge for Provider
merge_provider(self, base) ==
    [host |-> self.host,
     blob_path |-> merge_option(self.blob_path, base.blob_path),
     raw_path |-> merge_option(self.raw_path, base.raw_path),
     branch |-> merge_option(self.branch, base.branch)]

\* ------------------------------------------------------------------ providers

\* config::default_providers: the four built-in providers, in order.  A
\* path template is a string of literal tokens and placeholders.
default_providers ==
    << [host |-> "github.com",
        blob_path |-> Some(<<"{host}", "/", "{owner}", "/", "{repo}", "/blob/",
                             "{ref}", "/", "{file}">>),
        raw_path |-> Some(<<"raw.githubusercontent.com/", "{owner}", "/",
                            "{repo}", "/", "{ref}", "/", "{file}">>),
        branch |-> None],
       [host |-> "gitlab.com",
        blob_path |-> Some(<<"{host}", "/", "{owner}", "/", "{repo}",
                             "/-/blob/", "{ref}", "/", "{file}">>),
        raw_path |-> Some(<<"{host}", "/", "{owner}", "/", "{repo}",
                            "/-/raw/", "{ref}", "/", "{file}">>),
        branch |-> None],
       [host |-> "codeberg.org",
        blob_path |-> Some(<<"{host}", "/", "{owner}", "/", "{repo}",
                             "/src/branch/", "{ref}", "/", "{file}">>),
        raw_path |-> Some(<<"{host}", "/", "{owner}", "/", "{repo}",
                            "/raw/branch/", "{ref}", "/", "{file}">>),
        branch |-> None],
       [host |-> "bitbucket.org",
        blob_path |-> Some(<<"{host}", "/", "{owner}", "/", "{repo}", "/src/",
                             "{ref}", "/", "{file}">>),
        raw_path |-> Some(<<"{host}", "/", "{owner}", "/", "{repo}", "/raw/",
                            "{ref}", "/", "{file}">>),
        branch |-> None] >>

\* IndexMap::get by host.
index_map_get(map, host) ==
    IF \E i \in 1..Len(map) : map[i].host = host
    THEN Some(map[CHOOSE i \in 1..Len(map) : map[i].host = host])
    ELSE None

\* IndexMap::insert by host: the value of a host the map holds already is
\* replaced where it is, a new host goes to the end.
index_map_insert(map, provider) ==
    IF \E i \in 1..Len(map) : map[i].host = provider.host
    THEN [i \in 1..Len(map) |->
             IF map[i].host = provider.host THEN provider ELSE map[i]]
    ELSE Append(map, provider)

\* IndexMap::shift_remove by host.
index_map_remove(map, host) ==
    SelectSeq(map, LAMBDA p : p.host # host)

RECURSIVE providers_loop_over_defaults(_, _)
\* The loop that merges every user provider over the built-in provider of
\* its host, whatever an earlier user provider has set.
providers_loop_over_defaults(providers, user_providers) ==
    IF user_providers = <<>>
    THEN providers
    ELSE LET user_provider == Head(user_providers)
             default == index_map_get(default_providers, user_provider.host)
             next == IF default # None
                     THEN index_map_insert(providers,
                              merge_provider(user_provider, Unwrap(default)))
                     ELSE index_map_insert(providers, user_provider)
         IN  providers_loop_over_defaults(next, Tail(user_providers))

RECURSIVE providers_loop_reinserting(_, _)
\* The loop with the overridden provider removed and inserted anew.
providers_loop_reinserting(providers, user_providers) ==
    IF user_providers = <<>>
    THEN providers
    ELSE LET user_provider == Head(user_providers)
             default == index_map_get(providers, user_provider.host)
             next == IF IsSome(default)
                     THEN Append(index_map_remove(providers, user_provider.host),
                                 merge_provider(user_provider, Unwrap(default)))
                     ELSE index_map_insert(providers, user_provider)
         IN  providers_loop_reinserting(next, Tail(user_providers))

RECURSIVE providers_loop(_, _)
\* The loop of merge_providers_with_defaults over the user providers.
providers_loop(providers, user_providers) ==
    IF user_providers = <<>>
    THEN providers
    ELSE LET user_provider == Head(user_providers)
             default == index_map_get(providers, user_provider.host)
             next == IF IsSome(default)
                     THEN index_map_insert(providers,
                              merge_provider(user_provider, Unwrap(default)))
                     ELSE index_map_insert(providers, user_provider)
         IN  providers_loop(next, Tail(user_providers))

\* merge_providers_with_defaults with the reinserting loop.
merge_providers_reinserting(user_providers) ==
    providers_loop_reinserting(default_providers, user_providers)

\* merge_providers_with_defaults with the loop over the built-ins only.
merge_providers_over_defaults(user_providers) ==
    providers_loop_over_defaults(default_providers, user_providers)

\* config::merge_providers_with_defaults
merge_providers_with_defaults(user_providers) ==
    providers_loop(default_providers, user_providers)

\* ------------------------------------------------------------------ rendering

\* The directory the program runs in, as an absolute path.
Cwd == << <<"home">>, <<"project">> >>

\* Path::canonicalize: the absolute path of a file that exists.
canonicalize(files, path) ==
    IF ReadFile(files, path) = None
    THEN None
    ELSE Some(Cwd \o path.dir \o <<path.file>>)

\* render::strip_prefix that hands back the whole path when the prefix does
\* not match.
strip_prefix_or_whole(path, prefix) ==
    IF Len(prefix) <= Len(path) /\ SubSeq(path, 1, Len(prefix)) = prefix
    THEN Some(SubSeq(path, Len(prefix) + 1, Len(path)))
    ELSE Some(path)

\* render::strip_prefix
strip_prefix(path, prefix) ==
    IF Len(prefix) <= Len(path) /\ SubSeq(path, 1, Len(prefix)) = prefix
    THEN Some(SubSeq(path, Len(prefix) + 1, Len(path)))
    ELSE None

\* Cache::new.  The cache is kept with the repositories detection can find
\* on the machine: `dir` is where a repository lies, `root` the root the
\* version control reports for it, `url` its remote and `branch` its branch.
\* `cached` is the memory of the cache, empty at first: the upstream detected
\* for a repository, by the repository's root.
NewCache(repositories) ==
    [repositories |-> repositories, cached |-> [root \in {} |-> root]]

\* The repository nearest above the path, if any lies above it.
nearest_repository(repositories, path) ==
    LET above == {r \in repositories :
                    /\ Len(r.dir) <= Len(path)
                    /\ SubSeq(path, 1, Len(r.dir)) = r.dir}
    IN  IF above = {}
        THEN None
        ELSE Some(CHOOSE r \in above : \A q \in above : Len(q.dir) <= Len(r.dir))

\* What detection reports for a repository.
detect(repository) ==
    [root |-> repository.root, url |-> repository.url, branch |-> repository.branch]

\* The answer of the cache for the repository found, if one was found: from
\* the memory if it is there, else as detected now.
cached_or_detected(cached, nearest) ==
    IF nearest = None
    THEN None
    ELSE IF Unwrap(nearest).root \in DOMAIN cached
         THEN Some(cached[Unwrap(nearest).root])
         ELSE Some(detect(Unwrap(nearest)))

\* Cache::get_or_detect, the answer: the upstream of the nearest repository
\* above the path.
get_or_detect(git_cache, path) ==
    cached_or_detected(git_cache.cached,
                       nearest_repository(git_cache.repositories, path))

\* Cache::get_or_detect, the effect on the cache: what was detected for a
\* repository not in the memory yet is put there.
remember(git_cache, path) ==
    LET nearest == nearest_repository(git_cache.repositories, path)
    IN  IF nearest = None \/ Unwrap(nearest).root \in DOMAIN git_cache.cached
        THEN git_cache
        ELSE [git_cache EXCEPT !.cached =
                 [root \in DOMAIN @ \cup {Unwrap(nearest).root} |->
                     IF root = Unwrap(nearest).root
                     THEN Unwrap(get_or_detect(git_cache, path))
                     ELSE @[root]]]

\* git_info_with asking a cache of its own, made for the call.
git_info_with_own_cache(target_path, git_cache) ==
    LET git_info == get_or_detect(NewCache(git_cache.repositories), target_path)
    IN  IF git_info = None
        THEN None
        ELSE LET rel_path == strip_prefix(target_path, Unwrap(git_info).root)
             IN  IF rel_path = None
                 THEN None
                 ELSE Some(<<Unwrap(git_info), Unwrap(rel_path)>>)

\* git_info_with: the answer of the session's cache for the path, and the
\* path relative to the root in it.  The lookup also puts a newly detected
\* repository in the memory (remember); where the repositories stay as they
\* are during a run the answer is the same with the memory and without it.
git_info_with(target_path, git_cache) ==
    LET git_info == get_or_detect(git_cache, target_path)
    IN  IF git_info = None
        THEN None
        ELSE LET rel_path == strip_prefix(target_path, Unwrap(git_info).root)
             IN  IF rel_path = None
                 THEN None
                 ELSE Some(<<Unwrap(git_info), Unwrap(rel_path)>>)

resolve_with_autodetect(render_path, git_cache, files) ==
    LET abs_path == canonicalize(files, render_path)
    IN  IF abs_path = None
        THEN None
        ELSE git_info_with(Unwrap(abs_path), git_cache)

\* Path::to_string_lossy: the segments of a path, '/' between them.
to_string_lossy(path) ==
    Flatten([i \in 1..Len(path) |->
                IF i = 1 THEN path[i] ELSE <<"/">> \o path[i]])

\* providers::build_blob: the blob path template of the provider whose host
\* is the remote's, with its placeholders filled in.
build_blob(url, file_path, branch, providers) ==
    IF url.host = None
    THEN Err("malformed url")
    ELSE LET provider == index_map_get(providers, Unwrap(url.host))
         IN  IF provider = None
             THEN Err("no provider")
             ELSE IF Unwrap(provider).blob_path = None
                  THEN Err("no blob path")
                  ELSE LET ref == IF IsSome(Unwrap(provider).branch)
                                  THEN Unwrap(provider).branch
                                  ELSE Some(branch)
                           hosted == Replace(Unwrap(Unwrap(provider).blob_path),
                                             "{host}", <<Unwrap(url.host)>>)
                           owned == Replace(hosted, "{owner}", <<url.owner>>)
                           named == Replace(owned, "{repo}", <<url.repo>>)
                           at == Replace(named, "{ref}", <<Unwrap(ref)>>)
                       IN  Ok(Replace(at, "{file}", file_path))

\* providers::extract_repo_url: what comes before the blob part of the link,
\* if the link has one.
extract_repo_url(blob) ==
    IF Len(blob) >= 5 /\ blob[2] = "/" /\ blob[4] = "/"
    THEN Ok(Some(SubSeq(blob, 1, 5)))
    ELSE Ok(None)

\* Special::default
SpecialDefault == [upstream_file |-> None, upstream_repo |-> None]

build_upstream(render_path, session, fs) ==
    LET resolved == resolve_with_autodetect(render_path, session.git_cache,
                                            fs.files)
    IN  IF resolved = None
        THEN SpecialDefault
        ELSE LET git_info == Unwrap(resolved)[1]
                 file_path == to_string_lossy(Unwrap(resolved)[2])
                 blob == build_blob(git_info.url, file_path, git_info.branch,
                                    session.providers)
             IN  IF ~blob.ok
                 THEN SpecialDefault
                 ELSE LET repo == extract_repo_url(blob.val)
                      IN  [upstream_file |-> Some(blob.val),
                           upstream_repo |-> IF repo.ok THEN repo.val ELSE None]

\* The rendered text with its header, a function of everything the context
\* holds: theme, scheme, template source, upstream annotation and swatch.
prepare(path, theme, scheme, template, special, current_swatch) ==
    (theme.name_ascii + scheme.body + template.source
        + (IF IsSome(special.upstream_file) THEN 1 ELSE 0)
        + (IF IsSome(current_swatch) THEN Len(Unwrap(current_swatch)) ELSE 0))
    % (MaxContent + 1)

\* execute without the Conflict arm: a conflict falls through to the write.
execute_no_conflict_arm(decision, path, output, theme, scheme, template, session, fs) ==
    IF should_write(decision) \/ decision = "Conflict"
    THEN IF session.dry_run
         THEN [session |-> session, fs |-> fs, log |-> "would write"]
         ELSE LET dirs == create_dir_all(fs.dirs, path.dir)
                  written == write_file(fs.files, path, output)
                  files == format(written, path)
                  formatted == Unwrap(ReadFile(files, path))
                  entry == create_entry(path, theme, scheme, template,
                                        formatted)
              IN  [session |-> [session EXCEPT !.index = insert(@, entry)],
                   fs |-> [files |-> files, dirs |-> dirs],
                   log |-> "generated"]
    ELSE [session |-> session, fs |-> fs, log |-> "skipped"]

\* execute whose Conflict arm takes the file on disk for the new render:
\* the Entry is rebuilt from what is there.
execute_adopting_conflict(decision, path, output, theme, scheme, template, session, fs) ==
    IF decision = "Conflict"
    THEN LET file == ReadFile(fs.files, path)
         IN  IF file = None \/ session.dry_run
             THEN [session |-> session, fs |-> fs, log |-> "conflict"]
             ELSE [session |-> [session EXCEPT !.index =
                      insert(@, create_entry(path, theme, scheme, template,
                                             Unwrap(file)))],
                   fs |-> fs, log |-> "conflict"]
    ELSE IF should_write(decision)
    THEN IF session.dry_run
         THEN [session |-> session, fs |-> fs, log |-> "would write"]
         ELSE LET dirs == create_dir_all(fs.dirs, path.dir)
                  written == write_file(fs.files, path, output)
                  files == format(written, path)
                  formatted == Unwrap(ReadFile(files, path))
                  entry == create_entry(path, theme, scheme, template,
                                        formatted)
              IN  [session |-> [session EXCEPT !.index = insert(@, entry)],
                   fs |-> [files |-> files, dirs |-> dirs],
                   log |-> "generated"]
    ELSE [session |-> session, fs |-> fs, log |-> "skipped"]

\* execute that builds the Entry from the rendered output, not from the
\* file as the formatter left it.
execute_hashing_output(decision, path, output, theme, scheme, template, session, fs) ==
    IF decision = "Conflict"
    THEN [session |-> session, fs |-> fs, log |-> "conflict"]
    ELSE IF should_write(decision)
    THEN IF session.dry_run
         THEN [session |-> session, fs |-> fs, log |-> "would write"]
         ELSE LET dirs == create_dir_all(fs.dirs, path.dir)
                  written == write_file(fs.files, path, output)
                  files == format(written, path)
                  entry == create_entry(path, theme, scheme, template, output)
              IN  [session |-> [session EXCEPT !.index = insert(@, entry)],
                   fs |-> [files |-> files, dirs |-> dirs],
                   log |-> "generated"]
    ELSE [session |-> session, fs |-> fs, log |-> "skipped"]

execute(decision, path, output, theme, scheme, template, session, fs) ==
    IF decision = "Conflict"
    THEN [session |-> session, fs |-> fs, log |-> "conflict"]
    ELSE IF should_write(decision)
    THEN IF session.dry_run
         THEN [session |-> session, fs |-> fs, log |-> "would write"]
         ELSE LET dirs == create_dir_all(fs.dirs, path.dir)
                  written == write_file(fs.files, path, output)
                  files == format(written, path)
                  formatted == Unwrap(ReadFile(files, path))
                  entry == create_entry(path, theme, scheme, template,
                                        formatted)
              IN  [session |-> [session EXCEPT !.index = insert(@, entry)],
                   fs |-> [files |-> files, dirs |-> dirs],
                   log |-> "generated"]
    ELSE [session |-> session, fs |-> fs, log |-> "skipped"]

\* write asking for the Normal decision whenever the run is dry.
write_decision_dry(status, session) ==
    decide(status, IF session.dry_run THEN "Normal" ELSE session.write_mode)

\* The decision `write` asks for: decide(status, session.write_mode).
write_decision(status, session) == decide(status, session.write_mode)

write(theme, scheme, template, config, session, fs, current_swatch) ==
    LET resolved == resolve_path(theme, template.name, scheme.name, config,
                                 current_swatch)
    IN  IF ~resolved.ok
        THEN resolved
        ELSE
        LET path == resolved.val
            special == build_upstream(path, session, fs)
            output == prepare(path, theme, scheme, template, special,
                              current_swatch)
            status == check(session.index, fs.files, path, theme, scheme,
                            template)
            decision == write_decision(status, session)
            done == execute(decision, path, output, theme, scheme, template,
                            session, fs)
        IN  Ok([session |-> done.session, fs |-> done.fs, log |-> done.log,
                path |-> path, status |-> status, decision |-> decision])

\* The steps of `write` that may return an error: the rendering, the check
\* of the Index, and in `execute` the directory creation, the write, the
\* formatter and the re-read of the formatted file.
Faults == {"render", "check", "create_dir_all", "write", "format", "read"}

\* `execute` up to the step that returns the error: Some(file system left
\* behind), or None when the call does not reach that step.
execute_failing(decision, path, output, session, fs, fault) ==
    IF ~should_write(decision) \/ session.dry_run
    THEN None
    ELSE LET dirs == create_dir_all(fs.dirs, path.dir)
             written == write_file(fs.files, path, output)
         IN  CASE fault = "create_dir_all" -> Some(fs)
               [] fault = "write" -> Some([files |-> fs.files, dirs |-> dirs])
               [] fault = "format" -> Some([files |-> written, dirs |-> dirs])
               [] fault = "read" ->
                     Some([files |-> format(written, path), dirs |-> dirs])
               [] OTHER -> None

\* `write` up to the step that returns the error (the `?` of that step): the
\* session's Index is as it was, since the insert is the last step.
write_failing(theme, scheme, template, config, session, fs, current_swatch, fault) ==
    LET resolved == resolve_path(theme, template.name, scheme.name, config,
                                 current_swatch)
    IN  IF ~resolved.ok
        THEN None
        ELSE
        LET path == resolved.val
            special == build_upstream(path, session, fs)
            output == prepare(path, theme, scheme, template, special,
                              current_swatch)
            status == check(session.index, fs.files, path, theme, scheme,
                            template)
            decision == write_decision(status, session)
        IN  IF fault \in {"render", "check"}
            THEN Some(fs)
            ELSE execute_failing(decision, path, output, session, fs, fault)

\* ------------------------------------------------------------------ iteration

\* One call of `write`: indices into themes, the theme's schemes and the
\* templates, and the swatch of a swatch-iterating template.
Invocation(t, s, k, swatch) == [t |-> t, s |-> s, k |-> k, swatch |-> swatch]

apply_internal(themes, templates, t, s, k) ==
    IF uses_swatch_iteration(templates[k].name)
    THEN LET palette == themes[t].schemes[s].palette
         IN  [i \in 1..Len(palette) |-> Invocation(t, s, k, Some(palette[i]))]
    ELSE <<Invocation(t, s, k, None)>>

all_with_internal(themes, templates, t, s) ==
    Flatten([k \in 1..Len(templates) |->
        IF should_render(templates[k].name)
        THEN apply_internal(themes, templates, t, s, k)
        ELSE <<>>])

\* The calls of `write` one run makes, in order.
all_internal(themes, templates) ==
    Flatten([t \in 1..Len(themes) |->
        Flatten([s \in 1..Len(themes[t].schemes) |->
            all_with_internal(themes, templates, t, s)])])

\* ------------------------------------------------------------------ the project

ThemesDir == << <<"themes">>, <<"forest">> >>

\* themes::config::Config of a theme that does not inherit.
ThemeConfig == [inherit |-> FALSE, dirs |-> [render |-> ThemesDir \o << <<"render">> >>]]

ProjectConfig == [project |-> [type |-> "Polytheme", render_all_into |-> None]]

Palette == << <<"red">>, <<"green">> >>

SchemeNames == << <<"dark">>, <<"light">> >>

InitialThemes ==
    << [name |-> <<"forest">>,
        name_ascii |-> 1,
        schemes |-> [s \in 1..Len(SchemeNames) |->
                        [name |-> SchemeNames[s], palette |-> Palette, body |-> 1]],
        config |-> Some(ThemeConfig)] >>

\* The template directories a project may have: one output per scheme, or
\* one file name shared by every scheme.
TemplateSets ==
    { << << <<"SCHEME", ".conf", JINJA_TEMPLATE_SUFFIX>> >> >>,
      << << <<"plain", ".conf", JINJA_TEMPLATE_SUFFIX>> >> >> }

InputKinds == {"theme", "scheme", "template"}

\* The repositories on the machine: the project's own, hosted on github.com.
Repositories ==
    {[dir |-> Cwd, root |-> Cwd,
      url |-> [host |-> Some("github.com"), owner |-> "jezzy", repo |-> "theymer"],
      branch |-> "main"]}

\* The providers the templates were loaded with.
ProjectProviders == default_providers

\* ------------------------------------------------------------------ state

VARIABLES
    files,      \* the output tree: path -> content, for the files that exist
    dirs,       \* the directories that exist
    persisted,  \* the Index file: None when absent, else Some(index)
    themes,     \* the loaded themes (with their schemes)
    templates,  \* the loaded templates: name and source
    varying,    \* the kind of input that changes over this project's life
    session,    \* None when no run is active, else Some(Session)
    queue,      \* the calls of write the active run has still to make
    last,       \* what the last call of write saw and did (None before it)
    clean,      \* the active run is Normal, not dry, and nothing outside it
                \* has changed since it started
    settled,    \* the last finished run was clean and nothing has changed
                \* since
    twin,       \* under SpecTwin: the dry-run pass that runs beside the
                \* session on its own copy of the tree (None otherwise)
    probe,      \* under SpecCheck: an Index, a file and the inputs of one path,
                \* with the status check last returned for them (None otherwise)
    eval        \* under the specifications of the functions a run relies on
                \* (merge, provider resolution, path resolution): the function
                \* applied, its arguments and its result (None otherwise)

vars == <<files, dirs, persisted, themes, templates, varying, session, queue, last,
          clean, settled, twin, probe, eval>>

\* The output paths the loaded inputs render to.
OutPaths ==
    LET calls == all_internal(themes, templates)
    IN  {resolve_path(themes[calls[i].t], templates[calls[i].k].name,
                      themes[calls[i].t].schemes[calls[i].s].name,
                      ProjectConfig, calls[i].swatch).val
            : i \in 1..Len(calls)}

\* Index::load_or_create: the persisted Index, empty when there is none.
load_or_create == IF persisted = None THEN EmptyIndex ELSE Unwrap(persisted)

\* Session::new that starts from an empty Index.
NewSessionFresh(providers, write_mode, dry_run) ==
    [index |-> EmptyIndex, providers |-> providers,
     git_cache |-> NewCache(Repositories), write_mode |-> write_mode,
     dry_run |-> dry_run]

\* Session::new
NewSession(providers, write_mode, dry_run) ==
    [index |-> load_or_create, providers |-> providers,
     git_cache |-> NewCache(Repositories), write_mode |-> write_mode,
     dry_run |-> dry_run]

\* Session::save without the dry-run test.
save_always(sess) == Some(sess.index)

\* Session::save: what the Index file holds afterwards.
save(sess) == IF ~sess.dry_run THEN Some(sess.index) ELSE persisted

Init ==
    /\ files = EmptyIndex
    /\ dirs = create_dir_all({}, ThemesDir)
    /\ persisted = None
    /\ themes = InitialThemes
    /\ \E names \in TemplateSets :
          templates = [k \in 1..Len(names) |-> [name |-> names[k], source |-> 1]]
    /\ varying \in InputKinds
    /\ session = None
    /\ queue = <<>>
    /\ last = None
    /\ clean = FALSE
    /\ settled = FALSE
    /\ twin = None
    /\ probe = None
    /\ eval = None

\* The path a call resolves to under the loaded inputs.
PathOfCall(call) ==
    resolve_path(themes[call.t], templates[call.k].name,
                 themes[call.t].schemes[call.s].name, ProjectConfig,
                 call.swatch).val

\* A call of `write` has returned an error and the run has not ended yet.
Failed == last # None /\ Unwrap(last).log = "error"

\* What a call of `write` saw and did.
Seen(call, done) ==
    [call |-> call, path |-> done.path, status |-> done.status,
     decision |-> done.decision, log |-> done.log]

\* render::all starts: the session is created and the Index loaded.
StartRun(write_mode, dry_run) ==
    /\ session = None
    /\ session' = Some(NewSession(ProjectProviders, write_mode, dry_run))
    /\ queue' = all_internal(themes, templates)
    /\ last' = None
    /\ clean' = (write_mode = "Normal" /\ ~dry_run)
    /\ settled' = (settled /\ write_mode = "Normal" /\ ~dry_run)
    /\ UNCHANGED <<files, dirs, persisted, themes, templates, varying, twin, probe, eval>>

\* One call of `write`, for the next (theme, scheme, template, swatch); an
\* error ends the run without saving.
WriteStep ==
    /\ session # None
    /\ queue # <<>>
    /\ ~Failed
    /\ LET call == Head(queue)
           theme == themes[call.t]
           r == write(theme, theme.schemes[call.s], templates[call.k],
                      ProjectConfig, Unwrap(session),
                      [files |-> files, dirs |-> dirs], call.swatch)
       IN  IF r.ok
           THEN /\ session' = Some(r.val.session)
                /\ files' = r.val.fs.files
                /\ dirs' = r.val.fs.dirs
                /\ queue' = Tail(queue)
                /\ last' = Some(Seen(call, r.val))
                /\ UNCHANGED <<clean, settled>>
           ELSE /\ session' = None
                /\ queue' = <<>>
                /\ last' = None
                /\ clean' = FALSE
                /\ settled' = FALSE
                /\ UNCHANGED <<files, dirs>>
    /\ UNCHANGED <<persisted, themes, templates, varying, twin, probe, eval>>

\* The run ends: Session::save.
Finish ==
    /\ session # None
    /\ queue = <<>>
    /\ ~Failed
    /\ persisted' = save(Unwrap(session))
    /\ session' = None
    /\ last' = None
    /\ settled' = clean
    /\ clean' = FALSE
    /\ UNCHANGED <<files, dirs, themes, templates, varying, queue, twin, probe, eval>>

\* A call of `write` returns an error at one of its steps: what the steps
\* before it did stays on disk, and the error goes up to all_internal.
WriteFails(fault) ==
    /\ session # None
    /\ queue # <<>>
    /\ ~Failed
    /\ LET call == Head(queue)
           theme == themes[call.t]
           left == write_failing(theme, theme.schemes[call.s],
                                 templates[call.k], ProjectConfig,
                                 Unwrap(session),
                                 [files |-> files, dirs |-> dirs],
                                 call.swatch, fault)
       IN  /\ left # None
           /\ files' = Unwrap(left).files
           /\ dirs' = Unwrap(left).dirs
           /\ last' = Some([call |-> call, path |-> PathOfCall(call),
                            status |-> "none", decision |-> "none",
                            log |-> "error"])
    /\ clean' = FALSE
    /\ settled' = FALSE
    /\ UNCHANGED <<persisted, themes, templates, varying, session, queue, twin,
                   probe, eval>>

\* all_internal that saves the session on its way out of an error.
abort_saves(sess) == Some(sess.index)

\* all_internal returning the error (the `?` of all_with): the session is
\* dropped and Session::save is not reached; what the Index file holds.
abort(sess) == persisted

\* The error leaves all_internal: the run ends.
Abort ==
    /\ session # None
    /\ Failed
    /\ persisted' = abort(Unwrap(session))
    /\ session' = None
    /\ queue' = <<>>
    /\ last' = None
    /\ UNCHANGED <<files, dirs, themes, templates, varying, clean, settled, twin,
                   probe, eval>>

\* A human writes, rewrites or deletes an output file, at any time.
HumanEdit(path, content) ==
    /\ ReadFile(files, path) # content
    /\ files' = IF content = None
                THEN [p \in DOMAIN files \ {path} |-> files[p]]
                ELSE write_file(files, path, Unwrap(content))
    /\ dirs' = IF content = None THEN dirs ELSE create_dir_all(dirs, path.dir)
    /\ clean' = FALSE
    /\ settled' = FALSE
    /\ UNCHANGED <<persisted, themes, templates, varying, session, queue, last,
                   twin, probe, eval>>

\* Between runs the inputs change: a scheme's content, a template's source,
\* the theme's ascii name.
ChangeScheme(t, s, rev) ==
    /\ session = None
    /\ varying = "scheme"
    /\ themes[t].schemes[s].body # rev
    /\ themes' = [themes EXCEPT ![t].schemes[s].body = rev]
    /\ settled' = FALSE
    /\ UNCHANGED <<files, dirs, persisted, templates, varying, session, queue, last,
                   clean, twin, probe, eval>>

ChangeTemplate(k, rev) ==
    /\ session = None
    /\ varying = "template"
    /\ templates[k].source # rev
    /\ templates' = [templates EXCEPT ![k].source = rev]
    /\ settled' = FALSE
    /\ UNCHANGED <<files, dirs, persisted, themes, varying, session, queue, last,
                   clean, twin, probe, eval>>

ChangeTheme(t, rev) ==
    /\ session = None
    /\ varying = "theme"
    /\ themes[t].name_ascii # rev
    /\ themes' = [themes EXCEPT ![t].name_ascii = rev]
    /\ settled' = FALSE
    /\ UNCHANGED <<files, dirs, persisted, templates, varying, session, queue, last,
                   clean, twin, probe, eval>>

Next ==
    \/ \E m \in WriteMode, d \in BOOLEAN : StartRun(m, d)
    \/ WriteStep
    \/ Finish
    \/ \E f \in Faults : WriteFails(f)
    \/ Abort
    \/ \E p \in OutPaths, c \in Option(Contents) : HumanEdit(p, c)
    \/ \E t \in 1..Len(themes), s \in 1..Len(SchemeNames), r \in Revs :
          ChangeScheme(t, s, r)
    \/ \E k \in 1..Len(templates), r \in Revs : ChangeTemplate(k, r)
    \/ \E t \in 1..Len(themes), r \in Revs : ChangeTheme(t, r)

Spec == Init /\ [][Next]_vars

\* ------------------------------------------------------------------ two passes

\* A run that is not dry starts, and beside it a dry-run pass with the same
\* write mode, from the same persisted Index, tree and inputs.
StartPair(write_mode) ==
    /\ session = None
    /\ session' = Some(NewSession(ProjectProviders, write_mode, FALSE))
    /\ twin' = Some([session |-> NewSession(ProjectProviders, write_mode, TRUE),
                     fs |-> [files |-> files, dirs |-> dirs],
                     last |-> None])
    /\ queue' = all_internal(themes, templates)
    /\ last' = None
    /\ clean' = (write_mode = "Normal")
    /\ settled' = (settled /\ write_mode = "Normal")
    /\ UNCHANGED <<files, dirs, persisted, themes, templates, varying, probe, eval>>

\* Both passes make their next call of `write`, each on its own tree.
StepPair ==
    /\ session # None
    /\ twin # None
    /\ queue # <<>>
    /\ LET call == Head(queue)
           theme == themes[call.t]
           r == write(theme, theme.schemes[call.s], templates[call.k],
                      ProjectConfig, Unwrap(session),
                      [files |-> files, dirs |-> dirs], call.swatch)
           d == write(theme, theme.schemes[call.s], templates[call.k],
                      ProjectConfig, Unwrap(twin).session, Unwrap(twin).fs,
                      call.swatch)
       IN  /\ r.ok /\ d.ok
           /\ session' = Some(r.val.session)
           /\ files' = r.val.fs.files
           /\ dirs' = r.val.fs.dirs
           /\ last' = Some(Seen(call, r.val))
           /\ twin' = Some([session |-> d.val.session, fs |-> d.val.fs,
                            last |-> Some(Seen(call, d.val))])
    /\ queue' = Tail(queue)
    /\ UNCHANGED <<persisted, themes, templates, varying, clean, settled, probe, eval>>

\* Both passes end; only the pass that is not dry saves.
FinishPair ==
    /\ session # None
    /\ twin # None
    /\ queue = <<>>
    /\ persisted' = save(Unwrap(session))
    /\ session' = None
    /\ twin' = None
    /\ last' = None
    /\ settled' = clean
    /\ clean' = FALSE
    /\ UNCHANGED <<files, dirs, themes, templates, varying, queue, probe, eval>>

NextTwin ==
    \/ \E m \in WriteMode : StartPair(m)
    \/ StepPair
    \/ FinishPair
    \/ \E p \in OutPaths, c \in Option(Contents) :
          session = None /\ HumanEdit(p, c)
    \/ \E t \in 1..Len(themes), s \in 1..Len(SchemeNames), r \in Revs :
          ChangeScheme(t, s, r)
    \/ \E k \in 1..Len(templates), r \in Revs : ChangeTemplate(k, r)
    \/ \E t \in 1..Len(themes), r \in Revs : ChangeTheme(t, r)

SpecTwin == Init /\ [][NextTwin]_vars

\* ------------------------------------------------------------------ observations

\* The path the call resolves to under the loaded inputs.
PathOf(call) ==
    resolve_path(themes[call.t], templates[call.k].name,
                 themes[call.t].schemes[call.s].name, ProjectConfig,
                 call.swatch).val

\* The Index in force: the session's while a run is active, else the
\* persisted one.
CurIndex == IF session # None THEN Unwrap(session).index ELSE load_or_create

\* This step is a call of `write` that returned Ok.
IsWriteCall == session # None /\ queue # <<>> /\ session' # None /\ queue' = Tail(queue)

\* This step is a step of the run (a call of write, or its end).
IsRunStep == session # None /\ (queue' # queue \/ session' = None)

\* The file at `path` exists and its hash differs from its entry's render_hash.
Differs(index, fls, path) ==
    /\ path \in DOMAIN index
    /\ IsSome(ReadFile(fls, path))
    /\ Hash(Unwrap(ReadFile(fls, path))) # index[path].render_hash

\* ------------------------------------------------------------------ C1

\* C1: under write mode Normal, a call of write for a tracked path whose file
\* on disk does not hash to the entry's render_hash writes nothing: the tree
\* and the session's Index are as before and the decision is Conflict.
C1_ModifiedIsNeverWritten ==
    [][(/\ IsWriteCall
        /\ Unwrap(session).write_mode = "Normal"
        /\ Differs(Unwrap(session).index, files, PathOf(Head(queue))))
       => (/\ files' = files
           /\ dirs' = dirs
           /\ Unwrap(session').index = Unwrap(session).index
           /\ Unwrap(last').decision = "Conflict")]_vars

\* A Normal run that is not dry has met a human-modified file and left it.
C1_Witness ==
    /\ session # None /\ last # None
    /\ Unwrap(session).write_mode = "Normal"
    /\ ~Unwrap(session).dry_run
    /\ Unwrap(last).decision = "Conflict"
    /\ Differs(Unwrap(session).index, files, Unwrap(last).path)

\* ------------------------------------------------------------------ C2

DecisionTable ==
    { <<"NotTracked", "Normal", "Write">>, <<"NotTracked", "Force", "Write">>,
      <<"Stale", "Normal", "Write">>, <<"Stale", "Force", "Write">>,
      <<"Unchanged", "Normal", "Skip">>, <<"Unchanged", "Force", "ForceWrite">>,
      <<"Modified", "Normal", "Conflict">>, <<"Modified", "Force", "ForceWrite">> }

\* C2: decide is the function of the table, on every (status, write mode),
\* and the decision every call of write that gets to decide takes, dry run or
\* not, is the table's for the status it saw and the session's write mode.
C2_DecideIsTheTable ==
    /\ \A st \in FileStatus, m \in WriteMode :
          <<st, m, decide(st, m)>> \in DecisionTable
    /\ (session # None /\ last # None /\ ~Failed) =>
          <<Unwrap(last).status, Unwrap(session).write_mode,
            Unwrap(last).decision>> \in DecisionTable

\* A dry Force run has met an unchanged file and decided ForceWrite.
C2_Witness ==
    /\ session # None /\ last # None
    /\ Unwrap(session).dry_run
    /\ Unwrap(session).write_mode = "Force"
    /\ Unwrap(last).status = "Unchanged"
    /\ Unwrap(last).decision = "ForceWrite"

\* ------------------------------------------------------------------ C3

\* C3: in the second of two successive Normal runs that are not dry, with no
\* change outside them, no call of write writes a file and the session's
\* Index stays the one that was loaded.
C3_SecondRunWritesNothing ==
    (session # None /\ settled /\ clean) =>
        /\ Unwrap(session).index = load_or_create
        /\ last # None => ~should_write(Unwrap(last).decision)

\* ------------------------------------------------------------------ C4

\* C4: no step of a dry run changes a file, a directory, the session's Index
\* or the persisted Index.
C4_DryRunChangesNothing ==
    [][(IsRunStep /\ Unwrap(session).dry_run)
       => (/\ files' = files
           /\ dirs' = dirs
           /\ persisted' = persisted
           /\ session' # None =>
                 Unwrap(session').index = Unwrap(session).index)]_vars

\* A dry run has decided to write a file that does not exist.
C4_Witness ==
    /\ session # None /\ last # None
    /\ Unwrap(session).dry_run
    /\ Unwrap(last).log = "would write"
    /\ ReadFile(files, Unwrap(last).path) = None
    /\ persisted = None

\* ------------------------------------------------------------------ C5

\* C5: started from the same persisted Index, tree and inputs, the dry-run
\* pass takes for every call of write the decision the pass that is not dry
\* takes for it.
C5_DryRunDecidesAlike ==
    (twin # None /\ last # None) =>
        Unwrap(Unwrap(twin).last).decision = Unwrap(last).decision

\* ------------------------------------------------------------------ the Index alone

\* Every revision of the loaded theme, schemes and templates.
ThemeVariants ==
    {[themes[t] EXCEPT !.name_ascii = r] : t \in 1..Len(themes), r \in Revs}

SchemeVariants ==
    UNION {{[themes[t].schemes[s] EXCEPT !.body = r] : r \in Revs}
              : t \in 1..Len(themes), s \in 1..Len(SchemeNames)}

TemplateVariants ==
    {[templates[k] EXCEPT !.source = r] : k \in 1..Len(templates), r \in Revs}

\* The inputs differ from the ones the entry was made from.
IsStale(entry, theme, scheme, template) ==
    \/ hash_theme(theme) # entry.theme_hash
    \/ hash_scheme(scheme) # entry.scheme_hash
    \/ hash_template(template) # entry.template_hash

\* One output path of a project, with nothing rendered yet.
InitCheck ==
    /\ files = EmptyIndex
    /\ dirs = create_dir_all({}, ThemesDir)
    /\ persisted = None
    /\ themes = InitialThemes
    /\ \E names \in TemplateSets :
          templates = [k \in 1..Len(names) |-> [name |-> names[k], source |-> 1]]
    /\ varying = "scheme"
    /\ session = None
    /\ queue = <<>>
    /\ last = None
    /\ clean = FALSE
    /\ settled = FALSE
    /\ twin = None
    /\ eval = None
    /\ \E p \in OutPaths :
          probe = Some([path |-> p, index |-> EmptyIndex, files |-> EmptyIndex,
                        theme |-> themes[1], scheme |-> themes[1].schemes[1],
                        template |-> templates[1], status |-> None])

run == <<files, dirs, persisted, themes, templates, varying, session, queue, last,
         clean, settled, twin, eval>>

\* Index::create_entry for the file as it is on disk, and the insert that
\* follows it in `execute`.
ProbeCreateEntry ==
    /\ probe # None
    /\ LET b == Unwrap(probe)
       IN  /\ IsSome(ReadFile(b.files, b.path))
           /\ probe' = Some([b EXCEPT
                  !.index = insert(@, create_entry(b.path, b.theme, b.scheme,
                                                   b.template, b.files[b.path])),
                  !.status = None])
    /\ UNCHANGED run

\* Index::check of the path with the inputs at hand.
ProbeCheck ==
    /\ probe # None
    /\ LET b == Unwrap(probe)
       IN  probe' = Some([b EXCEPT
               !.status = Some(check(b.index, b.files, b.path, b.theme,
                                     b.scheme, b.template))])
    /\ UNCHANGED run

\* The file is written, rewritten or deleted.
ProbeEdit(content) ==
    /\ probe # None
    /\ LET b == Unwrap(probe)
       IN  /\ ReadFile(b.files, b.path) # content
           /\ probe' = Some([b EXCEPT
                  !.files = IF content = None
                            THEN EmptyIndex
                            ELSE write_file(@, b.path, Unwrap(content)),
                  !.status = None])
    /\ UNCHANGED run

\* The theme the path is rendered from changes.
ProbeTheme(theme) ==
    /\ probe # None
    /\ theme # Unwrap(probe).theme
    /\ probe' = Some([Unwrap(probe) EXCEPT !.theme = theme, !.status = None])
    /\ UNCHANGED run

\* The scheme changes, or the path is rendered from another scheme.
ProbeScheme(scheme) ==
    /\ probe # None
    /\ scheme # Unwrap(probe).scheme
    /\ probe' = Some([Unwrap(probe) EXCEPT !.scheme = scheme, !.status = None])
    /\ UNCHANGED run

\* The template's source changes.
ProbeTemplate(template) ==
    /\ probe # None
    /\ template # Unwrap(probe).template
    /\ probe' = Some([Unwrap(probe) EXCEPT !.template = template,
                                            !.status = None])
    /\ UNCHANGED run

NextCheck ==
    \/ ProbeCreateEntry
    \/ ProbeCheck
    \/ \E c \in Option(Contents) : ProbeEdit(c)
    \/ \E th \in ThemeVariants : ProbeTheme(th)
    \/ \E sc \in SchemeVariants : ProbeScheme(sc)
    \/ \E tp \in TemplateVariants : ProbeTemplate(tp)

SpecCheck == InitCheck /\ [][NextCheck]_vars

\* check has returned a status for the probe as it is now.
Checked == probe # None /\ Unwrap(probe).status # None

\* The status check returned, the entry of the path and the file of the path.
ProbeStatus == Unwrap(Unwrap(probe).status)
ProbeEntry == Unwrap(probe).index[Unwrap(probe).path]
ProbeFile == ReadFile(Unwrap(probe).files, Unwrap(probe).path)
ProbeTracked == Unwrap(probe).path \in DOMAIN Unwrap(probe).index

\* ------------------------------------------------------------------ C6

\* C6: for a tracked path whose file on disk hashes to something else than
\* the entry's render_hash, check returns Modified, whatever the theme, scheme
\* and template it is given (stale or not).
C6_ModifiedBeforeStale ==
    (Checked /\ Differs(Unwrap(probe).index, Unwrap(probe).files,
                        Unwrap(probe).path))
        => ProbeStatus = "Modified"

\* check has returned Modified for an edited file whose theme, scheme and
\* template have changed too.
C6_Witness ==
    /\ Checked /\ ProbeTracked
    /\ ProbeStatus = "Modified"
    /\ ProbeFile # None
    /\ Hash(Unwrap(ProbeFile)) # ProbeEntry.render_hash
    /\ hash_theme(Unwrap(probe).theme) # ProbeEntry.theme_hash
    /\ hash_scheme(Unwrap(probe).scheme) # ProbeEntry.scheme_hash
    /\ hash_template(Unwrap(probe).template) # ProbeEntry.template_hash

\* ------------------------------------------------------------------ C7

\* C7: for a tracked path whose file on disk hashes to the entry's
\* render_hash, check returns Stale as soon as one of the theme, scheme and
\* template hashes differs from the stored one.
C7_StaleWhenInputsDiffer ==
    (/\ Checked /\ ProbeTracked
     /\ ProbeFile # None
     /\ Hash(Unwrap(ProbeFile)) = ProbeEntry.render_hash
     /\ IsStale(ProbeEntry, Unwrap(probe).theme, Unwrap(probe).scheme,
                Unwrap(probe).template))
        => ProbeStatus = "Stale"

\* check has returned Stale for a file that still has the recorded content,
\* because of the scheme alone.
C7_Witness ==
    /\ Checked /\ ProbeTracked
    /\ ProbeStatus = "Stale"
    /\ ProbeFile # None
    /\ Hash(Unwrap(ProbeFile)) = ProbeEntry.render_hash
    /\ hash_scheme(Unwrap(probe).scheme) # ProbeEntry.scheme_hash
    /\ hash_theme(Unwrap(probe).theme) = ProbeEntry.theme_hash
    /\ hash_template(Unwrap(probe).template) = ProbeEntry.template_hash

\* ------------------------------------------------------------------ C8

\* C8: when the entry of a path is the one create_entry makes for the path,
\* the theme, the scheme, the template and the content the file holds, check
\* of the same path, theme, scheme and template returns Unchanged.
C8_RoundTrip ==
    (/\ Checked /\ ProbeTracked
     /\ ProbeFile # None
     /\ ProbeEntry = create_entry(Unwrap(probe).path, Unwrap(probe).theme,
                                  Unwrap(probe).scheme, Unwrap(probe).template,
                                  Unwrap(ProbeFile)))
        => ProbeStatus = "Unchanged"

\* An entry has been made for a second revision of every input and for the
\* content on disk, and check has returned Unchanged.
C8_Witness ==
    /\ Checked /\ ProbeTracked
    /\ ProbeStatus = "Unchanged"
    /\ ProbeFile = Some(MaxContent)
    /\ Unwrap(probe).theme.name_ascii = MaxRev
    /\ Unwrap(probe).scheme.body = MaxRev
    /\ Unwrap(probe).template.source = MaxRev
    /\ ProbeEntry = create_entry(Unwrap(probe).path, Unwrap(probe).theme,
                                 Unwrap(probe).scheme, Unwrap(probe).template,
                                 MaxContent)

\* ------------------------------------------------------------------ C9

\* C9: a call of write for a tracked path whose file is missing sees
\* Modified; under Normal it decides Conflict and leaves the file missing.
C9_MissingIsModified ==
    [][(/\ IsWriteCall
        /\ PathOf(Head(queue)) \in DOMAIN Unwrap(session).index
        /\ ReadFile(files, PathOf(Head(queue))) = None)
       => (/\ Unwrap(last').status = "Modified"
           /\ Unwrap(session).write_mode = "Normal"
                 => (/\ Unwrap(last').decision = "Conflict"
                     /\ files' = files))]_vars

\* A Normal run that is not dry has met a tracked file that was deleted, and
\* has not written it again.
C9_Witness ==
    /\ session # None /\ last # None
    /\ Unwrap(session).write_mode = "Normal"
    /\ ~Unwrap(session).dry_run
    /\ Unwrap(last).status = "Modified"
    /\ Unwrap(last).decision = "Conflict"
    /\ Unwrap(last).path \in DOMAIN CurIndex
    /\ ReadFile(files, Unwrap(last).path) = None

\* ------------------------------------------------------------------ C10

\* C10: check returns NotTracked exactly when the Index has no entry for the
\* path, whether the file exists or not and whatever it holds.
C10_NotTrackedIffNoEntry ==
    Checked => ((ProbeStatus = "NotTracked") <=> ~ProbeTracked)

\* check has returned NotTracked for a path without entry whose file exists.
C10_Witness ==
    /\ Checked
    /\ ProbeStatus = "NotTracked"
    /\ ~ProbeTracked
    /\ ProbeFile # None

\* ------------------------------------------------------------------ C11

\* This step is the end of a run that made every call of write.
IsSave == session # None /\ queue = <<>> /\ ~Failed /\ session' = None

\* C11: the persisted Index changes only in the step that ends a run, after
\* every call of write has been made, so at most once per run; and once a
\* call of write has returned an error the run makes no further call and ends
\* with the persisted Index exactly as it was.
C11_SavedOnceAtTheEndOrNotAtAll ==
    [][/\ (persisted' # persisted) => IsSave
       /\ (session # None /\ Failed) =>
             /\ persisted' = persisted
             /\ queue' \in {queue, <<>>}
             /\ session' \in {session, None}]_vars

\* A run that is not dry has written a file and recorded it in its Index,
\* and a later call has returned an error: the Index on disk lacks the entry.
C11_Witness ==
    /\ session # None /\ Failed
    /\ ~Unwrap(session).dry_run
    /\ Unwrap(session).index # load_or_create
    /\ \E p \in DOMAIN Unwrap(session).index :
          p \notin DOMAIN load_or_create /\ ReadFile(files, p) # None

\* ------------------------------------------------------------------ merge, applied

Texts == {"a", "b"}

\* Meta values: six optional texts.
Metas ==
    {[author |-> x, author_ascii |-> y, license |-> y, license_ascii |-> x,
      blurb |-> x, blurb_ascii |-> y] : x, y \in Option(Texts)}

SwatchNames == {<<"red">>, <<"green">>, <<"blue">>}
Colors == {"#111", "#222"}
Swatches == [name : SwatchNames, color : Colors]

\* Palettes: swatches in order, no name twice.
Palettes ==
    {p \in SeqUpTo(Swatches, MaxLen) :
        \A i, j \in 1..Len(p) : p[i].name = p[j].name => i = j}

Extras == {[rainbow |-> r] : r \in SeqUpTo(Colors, MaxLen)}

RolesValues == SeqUpTo([name : {"fg", "bg"}, value : SwatchNames], MaxLen)

\* Raw schemes: every field absent (or empty) or present.
RawSchemes ==
    [scheme : Option({"a"}), scheme_ascii : {None},
     meta : {m \in Metas : m.author = m.author_ascii /\ m.author # Some("b")},
     palette : {<<>>, <<[name |-> <<"red">>, color |-> "#111"]>>},
     roles : {<<>>, <<[name |-> "fg", value |-> <<"red">>]>>},
     extra : {[rainbow |-> <<>>], [rainbow |-> <<"#111">>]}]

\* The providers a user may configure: a built-in host or a host of their
\* own, every field set or not.
UserProviders ==
    [host : {"github.com", "example.org", "git.sr.ht"},
     blob_path : Option({<<"{host}", "/tree/", "{file}">>}),
     raw_path : Option({<<"{host}", "/raw/", "{file}">>}),
     branch : Option({"main", "dev"})]

BuiltIns == {default_providers[i] : i \in 1..Len(default_providers)}

\* An application of `op` to check: the operation and its arguments, with
\* no result yet.
Applying(op, selfs, bases) ==
    \E x \in selfs, y \in bases :
        eval = Some([op |-> op, self |-> x, base |-> y, out |-> None])

\* A project with nothing rendered and no run active.
Idle ==
    /\ files = EmptyIndex
    /\ dirs = create_dir_all({}, ThemesDir)
    /\ persisted = None
    /\ themes = InitialThemes
    /\ templates = <<>>
    /\ varying = "scheme"
    /\ session = None
    /\ queue = <<>>
    /\ last = None
    /\ clean = FALSE
    /\ settled = FALSE
    /\ twin = None
    /\ probe = None

rest == <<files, dirs, persisted, themes, templates, varying, session, queue, last,
          clean, settled, twin, probe>>

InitMerge ==
    /\ Idle
    /\ \/ Applying("Option", Option(Texts), Option(Texts))
       \/ Applying("Meta", Metas, Metas)
       \/ Applying("Extra", Extras, Extras)
       \/ Applying("Palette", Palettes, Palettes)
       \/ Applying("Roles", RolesValues, RolesValues)
       \/ Applying("RawScheme", RawSchemes, RawSchemes)
       \/ Applying("Provider", UserProviders, UserProviders \cup BuiltIns)
       \/ Applying("providers", SeqUpTo(UserProviders, MaxLen), {None})

\* The application at hand is of `op` and has no result yet.
Pending(op) ==
    eval # None /\ Unwrap(eval).op = op /\ Unwrap(eval).out = None

\* The application at hand gets its result.
Returns(out) ==
    /\ eval' = Some([Unwrap(eval) EXCEPT !.out = Some(out)])
    /\ UNCHANGED rest

MergeOption ==
    Pending("Option") /\ Returns(merge_option(Unwrap(eval).self, Unwrap(eval).base))

MergeMeta ==
    Pending("Meta") /\ Returns(merge_meta(Unwrap(eval).self, Unwrap(eval).base))

MergeExtra ==
    Pending("Extra") /\ Returns(merge_extra(Unwrap(eval).self, Unwrap(eval).base))

MergePalette ==
    Pending("Palette") /\ Returns(merge_palette(Unwrap(eval).self, Unwrap(eval).base))

MergeRoles ==
    Pending("Roles") /\ Returns(merge_roles(Unwrap(eval).self, Unwrap(eval).base))

MergeRawScheme ==
    Pending("RawScheme")
        /\ Returns(merge_raw_scheme(Unwrap(eval).self, Unwrap(eval).base))

MergeProvider ==
    Pending("Provider")
        /\ Returns(merge_provider(Unwrap(eval).self, Unwrap(eval).base))

MergeProviders ==
    Pending("providers")
        /\ Returns(merge_providers_with_defaults(Unwrap(eval).self))

NextMerge ==
    \/ MergeOption
    \/ MergeMeta
    \/ MergeExtra
    \/ MergePalette
    \/ MergeRoles
    \/ MergeRawScheme
    \/ MergeProvider
    \/ MergeProviders

SpecMerge == InitMerge /\ [][NextMerge]_vars

\* The application at hand is of `op` and has returned.
Returned(op) ==
    eval # None /\ Unwrap(eval).op = op /\ Unwrap(eval).out # None

Self == Unwrap(eval).self
Base == Unwrap(eval).base
Out == Unwrap(Unwrap(eval).out)

\* ------------------------------------------------------------------ C12

MergeableTypes ==
    {"Option", "Meta", "Extra", "Palette", "Roles", "RawScheme", "Provider"}

\* C12: for every mergeable type and every value x of it, merge(x, x) is x.
C12_MergeWithItselfIsItself ==
    (/\ eval # None
     /\ Unwrap(eval).op \in MergeableTypes
     /\ Unwrap(eval).out # None
     /\ Self = Base)
        => Out = Self

\* ------------------------------------------------------------------ C13

\* The swatch names of a palette, in order.
Names(palette) == [i \in 1..Len(palette) |-> palette[i].name]

Has(palette, name) == \E i \in 1..Len(palette) : palette[i].name = name

SwatchOf(palette, name) ==
    palette[CHOOSE i \in 1..Len(palette) : palette[i].name = name]

\* C13: Palette merge(self, base) lists base's names in base's order, then
\* self's names that base lacks in self's order; a name of self comes with
\* self's swatch, whole, and every other name with base's.
C13_PaletteMergeIsTheUnion ==
    Returned("Palette") =>
        /\ Names(Out) = Names(Base)
                \o Names(SelectSeq(Self, LAMBDA sw : ~Has(Base, sw.name)))
        /\ \A i \in 1..Len(Out) :
              Out[i] = IF Has(Self, Out[i].name)
                       THEN SwatchOf(Self, Out[i].name)
                       ELSE SwatchOf(Base, Out[i].name)

\* A merge where self changes the colour of a swatch that is not base's
\* first and adds a swatch base lacks.
C13_Witness ==
    /\ Returned("Palette")
    /\ Base = <<[name |-> <<"green">>, color |-> "#111"],
                [name |-> <<"red">>, color |-> "#111"]>>
    /\ Self = <<[name |-> <<"blue">>, color |-> "#222"],
                [name |-> <<"red">>, color |-> "#222"]>>
    /\ Out = <<[name |-> <<"green">>, color |-> "#111"],
               [name |-> <<"red">>, color |-> "#222"],
               [name |-> <<"blue">>, color |-> "#222"]>>

\* ------------------------------------------------------------------ C14

\* A user provider that sets nothing but its branch.
OnlyBranch(provider) ==
    provider.blob_path = None /\ provider.raw_path = None
        /\ provider.branch # None

\* C14: Provider merge(self, base) has self's host and, for blob_path,
\* raw_path and branch, self's value if present and base's otherwise; and
\* when the user's providers for github.com set only the branch, the
\* resolved github.com has the built-in blob_path and raw_path and the
\* user's branch.
C14_ProviderMergeIsFieldWise ==
    /\ Returned("Provider") =>
          /\ Out.host = Self.host
          /\ Out.blob_path
                = IF Self.blob_path # None THEN Self.blob_path ELSE Base.blob_path
          /\ Out.raw_path
                = IF Self.raw_path # None THEN Self.raw_path ELSE Base.raw_path
          /\ Out.branch
                = IF Self.branch # None THEN Self.branch ELSE Base.branch
    /\ (/\ Returned("providers")
        /\ \E i \in 1..Len(Self) : Self[i].host = "github.com"
        /\ \A i \in 1..Len(Self) :
              Self[i].host = "github.com" => OnlyBranch(Self[i]))
          => LET mine == {i \in 1..Len(Self) : Self[i].host = "github.com"}
                 last_one == CHOOSE i \in mine : \A j \in mine : j <= i
             IN  Out[1] = [default_providers[1] EXCEPT
                              !.branch = Self[last_one].branch]

\* The providers were resolved for a user who sets only the branch of
\* github.com.
C14_Witness ==
    /\ Returned("providers")
    /\ Self = <<[host |-> "github.com", blob_path |-> None, raw_path |-> None,
                 branch |-> Some("main")]>>
    /\ Out[1].branch = Some("main")
    /\ Out[1].blob_path = default_providers[1].blob_path

\* ------------------------------------------------------------------ C15

\* The hosts of a provider list, in order.
Hosts(providers) == [i \in 1..Len(providers) |-> providers[i].host]

DefaultHosts == {"github.com", "gitlab.com", "codeberg.org", "bitbucket.org"}

\* The hosts of the user providers that are not built in, in order of first
\* appearance.
NewHosts(user_providers) ==
    LET first == SelectSeq([i \in 1..Len(user_providers) |-> i],
                    LAMBDA i :
                        /\ user_providers[i].host \notin DefaultHosts
                        /\ \A j \in 1..(i - 1) :
                              user_providers[j].host # user_providers[i].host)
    IN  [n \in 1..Len(first) |-> user_providers[first[n]].host]

\* C15: merge_providers_with_defaults returns github.com, gitlab.com,
\* codeberg.org and bitbucket.org in that order, overridden or not, then the
\* user's other hosts in order of first appearance; with no user provider it
\* returns the built-in providers themselves.
C15_BuiltInsFirstThenNewHosts ==
    Returned("providers") =>
        /\ Hosts(Out)
              = <<"github.com", "gitlab.com", "codeberg.org", "bitbucket.org">>
                    \o NewHosts(Self)
        /\ Self = <<>> => Out = default_providers

\* The providers were resolved for a user who adds a host and then overrides
\* github.com.
C15_Witness ==
    /\ Returned("providers")
    /\ Len(Self) = 2
    /\ Self[1].host = "example.org"
    /\ Self[2].host = "github.com"
    /\ Self[2].blob_path # None
    /\ Hosts(Out) = <<"github.com", "gitlab.com", "codeberg.org",
                      "bitbucket.org", "example.org">>
    /\ Out[1].blob_path = Self[2].blob_path

\* ------------------------------------------------------------------ theme config

\* A path is absolute when it starts at the root.
IsAbsolute(path) == path # <<>> /\ path[1] = <<"/">>

\* Path::join: an absolute path replaces the one it is joined to.
Join(base, path) == IF IsAbsolute(path) THEN path ELSE base \o path

\* config::expand_and_resolve, for a path without variables to expand.
expand_and_resolve(path, root) == IF IsAbsolute(path) THEN path ELSE root \o path

\* themes::config::load that takes the shared target without the theme's
\* name.
theme_config_load_unnamed(themes_dir, name, config, raw) ==
    Some([inherit |-> raw.inherit,
          dirs |-> [schemes |-> expand_and_resolve(raw.dirs.schemes, themes_dir),
                    templates |-> expand_and_resolve(raw.dirs.templates,
                                                     themes_dir),
                    render |->
                        IF raw.inherit
                        THEN IF config.project.render_all_into = None
                             THEN Join(themes_dir, raw.dirs.render)
                             ELSE Unwrap(config.project.render_all_into)
                        ELSE Join(themes_dir, raw.dirs.render)]])

\* themes::config::load, from the parsed file `raw`.
theme_config_load(themes_dir, name, config, raw) ==
    Some([inherit |-> raw.inherit,
          dirs |-> [schemes |-> expand_and_resolve(raw.dirs.schemes, themes_dir),
                    templates |-> expand_and_resolve(raw.dirs.templates,
                                                     themes_dir),
                    render |->
                        IF raw.inherit
                        THEN IF config.project.render_all_into = None
                             THEN Join(themes_dir, raw.dirs.render)
                             ELSE Join(Unwrap(config.project.render_all_into),
                                       <<name>>)
                        ELSE Join(themes_dir, raw.dirs.render)]])

\* ------------------------------------------------------------------ paths, applied

\* Per-theme config files: inherit or not, the render dir by default, named,
\* or absolute.
RawThemeConfigs ==
    [inherit : BOOLEAN,
     dirs : [schemes : {<< <<"schemes">> >>}, templates : {<< <<"templates">> >>},
             render : {<< <<"render">> >>, << <<"out">>, <<"conf">> >>,
                       << <<"/">>, <<"srv">> >>}]]

\* Project configs: of either type, with a shared render target or none.
ProjectConfigs ==
    {[project |-> [type |-> t, render_all_into |-> r]] :
        t \in {"Polytheme", "Monotheme"},
        r \in Option({<< <<"build">> >>, << <<"/">>, <<"var">>, <<"out">> >>})}

\* Template names: the markers bare or in braces, in a directory or not,
\* with the template suffix or not, for every swatch.
TemplateNames ==
    { << <<"THEME", "-", "SCHEME", ".conf", JINJA_TEMPLATE_SUFFIX>> >>,
      << <<"{", "THEME", "}", "-", "{", "SCHEME", "}", ".conf",
           JINJA_TEMPLATE_SUFFIX>> >>,
      << <<"kitty">>, <<"THEME", "-", "SCHEME", ".conf", JINJA_TEMPLATE_SUFFIX>> >>,
      << <<"SCHEME", "-", "SWATCH", ".css", JINJA_TEMPLATE_SUFFIX>> >>,
      << <<"notes", ".txt">> >>,
      << <<"kitty">>, <<>> >> }

\* resolve_path to apply: a theme directory with its config file, the
\* project's config, a template name, a scheme name and a swatch or none.
InitPath ==
    /\ Idle
    /\ \E raw \in RawThemeConfigs, config \in ProjectConfigs,
          template_name \in TemplateNames,
          scheme \in 1..Len(SchemeNames), swatch \in Option(SwatchNames) :
          eval = Some([op |-> "resolve_path", raw |-> raw, config |-> config,
                       template_name |-> template_name,
                       scheme_name |-> SchemeNames[scheme],
                       swatch_name |-> swatch,
                       theme |-> None, out |-> None])

\* themes::load: the theme of the directory, with the config of its file.
LoadTheme ==
    /\ eval # None
    /\ Unwrap(eval).op = "resolve_path"
    /\ Unwrap(eval).theme = None
    /\ LET e == Unwrap(eval)
           name == InitialThemes[1].name
       IN  eval' = Some([e EXCEPT !.theme =
               Some([InitialThemes[1] EXCEPT !.config =
                        theme_config_load(ThemesDir, name, e.config, e.raw)])])
    /\ UNCHANGED rest

\* resolve_path for the loaded theme.
ResolvePath ==
    /\ eval # None
    /\ Unwrap(eval).op = "resolve_path"
    /\ Unwrap(eval).theme # None
    /\ Unwrap(eval).out = None
    /\ LET e == Unwrap(eval)
       IN  eval' = Some([e EXCEPT !.out =
               Some(resolve_path(Unwrap(e.theme), e.template_name,
                                 e.scheme_name, e.config, e.swatch_name))])
    /\ UNCHANGED rest

NextPath == LoadTheme \/ ResolvePath

SpecPath == InitPath /\ [][NextPath]_vars

\* The theme is loaded; its config.
Loaded ==
    eval # None /\ Unwrap(eval).op = "resolve_path" /\ Unwrap(eval).theme # None

LoadedConfig == Unwrap(Unwrap(Unwrap(eval).theme).config)

\* resolve_path has returned; what it returned.
Resolved == Loaded /\ Unwrap(eval).out # None

ResolvedPath == Unwrap(Unwrap(eval).out)

\* ------------------------------------------------------------------ C16

\* resolve_path was applied to this template for scheme "dark" and no
\* swatch (the theme is "forest").
ResolvedFor(template_name) ==
    /\ Resolved
    /\ Unwrap(eval).template_name = template_name
    /\ Unwrap(eval).scheme_name = <<"dark">>
    /\ Unwrap(eval).swatch_name = None

\* C16, as stated: for the template "{THEME}-{SCHEME}.conf.jinja", theme
\* "forest", scheme "dark" and no swatch, resolve_path yields the file name
\* "forest-dark.conf" in the render directory.
C16_BracedTemplateResolves ==
    ResolvedFor(<< <<"{", "THEME", "}", "-", "{", "SCHEME", "}", ".conf",
                     JINJA_TEMPLATE_SUFFIX>> >>)
        => /\ ResolvedPath.ok
           /\ ResolvedPath.val.file = <<"forest", "-", "dark", ".conf">>
           /\ ResolvedPath.val.dir = LoadedConfig.dirs.render

\* C16, amended: the markers are the bare words THEME and SCHEME.  For the
\* template "THEME-SCHEME.conf.jinja", theme "forest", scheme "dark" and no
\* swatch, resolve_path yields the file name "forest-dark.conf" under the
\* render directory and the template's parent directories; for
\* "{THEME}-{SCHEME}.conf.jinja" the braces stay: "{forest}-{dark}.conf".
C16_BareMarkersResolve ==
    /\ ResolvedFor(<< <<"THEME", "-", "SCHEME", ".conf",
                        JINJA_TEMPLATE_SUFFIX>> >>)
          => /\ ResolvedPath.ok
             /\ ResolvedPath.val.file = <<"forest", "-", "dark", ".conf">>
             /\ ResolvedPath.val.dir = LoadedConfig.dirs.render
    /\ ResolvedFor(<< <<"kitty">>,
                      <<"THEME", "-", "SCHEME", ".conf",
                        JINJA_TEMPLATE_SUFFIX>> >>)
          => /\ ResolvedPath.ok
             /\ ResolvedPath.val.file = <<"forest", "-", "dark", ".conf">>
             /\ ResolvedPath.val.dir
                   = LoadedConfig.dirs.render \o << <<"kitty">> >>
    /\ ResolvedFor(<< <<"{", "THEME", "}", "-", "{", "SCHEME", "}", ".conf",
                        JINJA_TEMPLATE_SUFFIX>> >>)
          => /\ ResolvedPath.ok
             /\ ResolvedPath.val.file
                   = <<"{", "forest", "}", "-", "{", "dark", "}", ".conf">>
             /\ ResolvedPath.val.dir = LoadedConfig.dirs.render

\* resolve_path has returned kitty/forest-dark.conf under the render
\* directory of a theme that does not inherit.
C16_Witness ==
    /\ ResolvedFor(<< <<"kitty">>,
                      <<"THEME", "-", "SCHEME", ".conf",
                        JINJA_TEMPLATE_SUFFIX>> >>)
    /\ ~LoadedConfig.inherit
    /\ ResolvedPath.ok
    /\ ResolvedPath.val
          = [dir |-> ThemesDir \o << <<"render">>, <<"kitty">> >>,
             file |-> <<"forest", "-", "dark", ".conf">>]

\* ------------------------------------------------------------------ C20

\* The theme-local render directory: the theme directory joined with the
\* render dir of the theme's config file.
ThemeLocal == Join(ThemesDir, Unwrap(eval).raw.dirs.render)

\* The project's shared render target, when it has one.
Shared == Unwrap(eval).config.project.render_all_into

\* C20, as stated: whenever inherit is true the theme's render directory is
\* the project's shared render target joined with the theme's name, and
\* whenever it is false it is the theme-local directory.
C20_InheritMeansShared ==
    Loaded =>
        IF LoadedConfig.inherit
        THEN /\ Shared # None
             /\ LoadedConfig.dirs.render
                   = Join(Unwrap(Shared), << <<"forest">> >>)
        ELSE LoadedConfig.dirs.render = ThemeLocal

\* C20, amended: whenever inherit is true and the project has a shared
\* render target, the theme's render directory is that target joined with
\* the theme's name; whenever inherit is false, or the project has no shared
\* render target, it is the theme-local directory.
C20_InheritMeansSharedIfAny ==
    Loaded =>
        /\ LoadedConfig.inherit = Unwrap(eval).raw.inherit
        /\ IF LoadedConfig.inherit /\ Shared # None
           THEN LoadedConfig.dirs.render
                   = Unwrap(Shared) \o << <<"forest">> >>
           ELSE LoadedConfig.dirs.render = ThemeLocal

\* A theme that inherits was loaded in a project with a shared target, and a
\* path was resolved under the target and the theme's name.
C20_Witness ==
    /\ Resolved
    /\ LoadedConfig.inherit
    /\ Shared = Some(<< <<"build">> >>)
    /\ LoadedConfig.dirs.render = << <<"build">>, <<"forest">> >>
    /\ ResolvedPath.ok
    /\ ResolvedPath.val.dir = << <<"build">>, <<"forest">> >>

\* ------------------------------------------------------------------ swatches and skips

\* Template directories with a template per swatch and templates to skip:
\* the swatch marker in the file name, or in a directory of the name.
IterTemplateSets ==
    { << << <<"SCHEME", "-", "SWATCH", ".css", JINJA_TEMPLATE_SUFFIX>> >>,
         << <<SKIP_RENDERING_PREFIX, "partials">>,
            <<"SCHEME", ".conf", JINJA_TEMPLATE_SUFFIX>> >>,
         << <<"kitty">>, <<SKIP_RENDERING_PREFIX, "SCHEME", ".inc",
                          JINJA_TEMPLATE_SUFFIX>> >>,
         << <<"SCHEME", ".conf", JINJA_TEMPLATE_SUFFIX>> >> >>,
      << << <<"SCHEME">>, <<"SWATCH">>,
            <<"colors", ".css", JINJA_TEMPLATE_SUFFIX>> >> >> }

InitIter ==
    /\ files = EmptyIndex
    /\ dirs = create_dir_all({}, ThemesDir)
    /\ persisted = None
    /\ themes = InitialThemes
    /\ \E names \in IterTemplateSets :
          templates = [k \in 1..Len(names) |-> [name |-> names[k], source |-> 1]]
    /\ varying = "template"
    /\ session = None
    /\ queue = <<>>
    /\ last = None
    /\ clean = FALSE
    /\ settled = FALSE
    /\ twin = None
    /\ probe = None
    /\ eval = None

NextIter ==
    \/ \E m \in WriteMode, d \in BOOLEAN : StartRun(m, d)
    \/ WriteStep
    \/ Finish
    \/ \E k \in 1..Len(templates), r \in Revs : ChangeTemplate(k, r)

SpecIter == InitIter /\ [][NextIter]_vars

\* ------------------------------------------------------------------ C17

\* The calls of `write` the queue holds for one theme, scheme and template.
CallsFor(t, s, k) ==
    SelectSeq(queue, LAMBDA call : call.t = t /\ call.s = s /\ call.k = k)

\* The files on disk that the swatches of one scheme resolve to for a template.
SwatchFiles(t, s, k) ==
    LET palette == themes[t].schemes[s].palette
    IN  { p \in DOMAIN files :
            \E i \in 1..Len(palette) :
                p = PathOfCall(Invocation(t, s, k, Some(palette[i]))) }

\* A run has made every call of `write` and written to disk.
RanThrough ==
    /\ session # None
    /\ queue = <<>>
    /\ last # None
    /\ ~Failed
    /\ ~Unwrap(session).dry_run

\* C17: a template whose name contains the swatch marker is passed to `write`
\* once per swatch of the scheme, in palette order, and a template without the
\* marker once with no swatch; after the run a template with the marker has
\* as many output files per scheme as the palette has swatches.
C17_OneFilePerSwatch ==
    \A t \in 1..Len(themes) : \A s \in 1..Len(themes[t].schemes) :
        \A k \in 1..Len(templates) :
            LET palette == themes[t].schemes[s].palette
                marked == Contains(templates[k].name, SWATCH_MARKER)
                skipped == \E i \in 1..Len(templates[k].name) :
                               /\ templates[k].name[i] # <<>>
                               /\ templates[k].name[i][1] = SKIP_RENDERING_PREFIX
            IN  ~skipped =>
                  /\ (session # None /\ last = None) =>
                        CallsFor(t, s, k) =
                            IF marked
                            THEN [i \in 1..Len(palette) |->
                                    Invocation(t, s, k, Some(palette[i]))]
                            ELSE <<Invocation(t, s, k, None)>>
                  /\ (RanThrough /\ marked) =>
                        Cardinality(SwatchFiles(t, s, k)) = Len(palette)

\* The part of C17 about the calls alone.
C17_CallsOnly ==
    \A t \in 1..Len(themes) : \A s \in 1..Len(themes[t].schemes) :
        \A k \in 1..Len(templates) :
            LET palette == themes[t].schemes[s].palette
            IN  (session # None /\ last = None /\ should_render(templates[k].name)) =>
                    CallsFor(t, s, k) =
                        IF Contains(templates[k].name, SWATCH_MARKER)
                        THEN [i \in 1..Len(palette) |->
                                Invocation(t, s, k, Some(palette[i]))]
                        ELSE <<Invocation(t, s, k, None)>>

\* The part of C17 about the files, for a marker in the file name.
C17_FilesWhenInFileName ==
    \A t \in 1..Len(themes) : \A s \in 1..Len(themes[t].schemes) :
        \A k \in 1..Len(templates) :
            (/\ RanThrough
             /\ should_render(templates[k].name)
             /\ Contains(<<templates[k].name[Len(templates[k].name)]>>, SWATCH_MARKER)) =>
                Cardinality(SwatchFiles(t, s, k)) = Len(themes[t].schemes[s].palette)

\* ------------------------------------------------------------------ C18

\* Some '/'-separated segment of the name begins with the skip prefix.
HasSkipSegment(name) ==
    \E i \in 1..Len(name) :
        name[i] # <<>> /\ Head(name[i]) = SKIP_RENDERING_PREFIX

\* The paths the templates without a skipped segment resolve to.
RenderedPaths ==
    { PathOfCall(Invocation(t, s, k, None)) :
        <<t, s, k>> \in { x \in (1..Len(themes)) \X (1..2) \X (1..Len(templates)) :
                            /\ x[2] <= Len(themes[x[1]].schemes)
                            /\ ~HasSkipSegment(templates[x[3]].name) } }
    \cup
    { PathOfCall(Invocation(x[1], x[2], x[3], Some(x[4]))) :
        x \in { y \in (1..Len(themes)) \X (1..2) \X (1..Len(templates)) \X SwatchNames :
                  /\ y[2] <= Len(themes[y[1]].schemes)
                  /\ ~HasSkipSegment(templates[y[3]].name) } }

\* C18: a template with a segment that begins with the skip prefix is never
\* passed to `write` in a full run, so no file and no Index entry is ever one
\* of its outputs; every other template is passed to `write` for every scheme.
C18_SkippedTemplatesAreLeftOut ==
    /\ \A i \in 1..Len(queue) : ~HasSkipSegment(templates[queue[i].k].name)
    /\ last # None => ~HasSkipSegment(templates[Unwrap(last).call.k].name)
    /\ DOMAIN files \subseteq RenderedPaths
    /\ DOMAIN CurIndex \subseteq RenderedPaths
    /\ (session # None /\ last = None) =>
          \A t \in 1..Len(themes) : \A s \in 1..Len(themes[t].schemes) :
              \A k \in 1..Len(templates) :
                  ~HasSkipSegment(templates[k].name) => CallsFor(t, s, k) # <<>>

\* A run over templates of both kinds has written its files.
C18_Witness ==
    /\ RanThrough
    /\ \E k \in 1..Len(templates) : HasSkipSegment(templates[k].name)
    /\ \E k \in 1..Len(templates) : ~HasSkipSegment(templates[k].name)
    /\ DOMAIN files # {}
    /\ DOMAIN Unwrap(session).index # {}

\* ------------------------------------------------------------------ upstream, applied

\* The theme, scheme and template of the call of `write` under study.
UpTheme == InitialThemes[1]
UpScheme == UpTheme.schemes[1]
UpTemplate == [name |-> << <<"SCHEME", ".conf", JINJA_TEMPLATE_SUFFIX>> >>, source |-> 1]
UpPath == resolve_path(UpTheme, UpTemplate.name, UpScheme.name, ProjectConfig, None).val

\* What detection may find on a machine: no repository, the project's own,
\* one whose reported root spells the path another way, one with a remote
\* that has no host, one hosted where no built-in provider is, and the
\* project's own with a repository of the themes inside it.
Machines ==
    LET own == CHOOSE r \in Repositories : TRUE
    IN  { {},
          Repositories,
          {[own EXCEPT !.root = << <<"mnt">>, <<"project">> >>]},
          {[own EXCEPT !.url.host = None]},
          {[own EXCEPT !.url.host = Some("example.org")]},
          Repositories \cup
             {[own EXCEPT !.dir = Cwd \o << <<"themes">> >>,
                          !.root = Cwd \o << <<"themes">> >>,
                          !.url.repo = "themes"]} }

\* The provider lists a session may hold.
ProviderLists ==
    { default_providers,
      <<>>,
      merge_providers_with_defaults(
          << [host |-> "example.org",
              blob_path |-> Some(<<"{host}", "/", "{owner}", "/", "{repo}",
                                   "/tree/", "{ref}", "/", "{file}">>),
              raw_path |-> None, branch |-> Some("trunk")] >>),
      << [host |-> "github.com", blob_path |-> None, raw_path |-> None,
          branch |-> None] >> }

\* The Index of the session: empty, or with the entry of an earlier write.
UpIndexes ==
    {EmptyIndex} \cup
    { [p \in {UpPath} |-> create_entry(UpPath, UpTheme, UpScheme, UpTemplate, c)] :
        c \in Contents }

\* The disk: the output file absent, or there with some content.
UpFiles == {EmptyIndex} \cup { [p \in {UpPath} |-> c] : c \in Contents }

InitUpstream ==
    /\ Idle
    /\ \E index \in UpIndexes, fs_files \in UpFiles, machine \in Machines,
          providers \in ProviderLists, write_mode \in WriteMode,
          dry_run \in BOOLEAN :
          eval = Some([op |-> "write",
                       session |-> [index |-> index, providers |-> providers,
                                    git_cache |-> NewCache(machine),
                                    write_mode |-> write_mode,
                                    dry_run |-> dry_run],
                       fs |-> [files |-> fs_files,
                               dirs |-> create_dir_all({}, ThemesDir)],
                       special |-> None, out |-> None])

\* The annotation is built for the resolved path.
BuildUpstream ==
    /\ Pending("write")
    /\ Unwrap(eval).special = None
    /\ LET e == Unwrap(eval)
       IN  eval' = Some([e EXCEPT !.special =
                            Some(build_upstream(UpPath, e.session, e.fs))])
    /\ UNCHANGED rest

\* The call of `write` returns.
Write ==
    /\ Pending("write")
    /\ Unwrap(eval).special # None
    /\ LET e == Unwrap(eval)
       IN  Returns(write(UpTheme, UpScheme, UpTemplate, ProjectConfig,
                         e.session, e.fs, None))

NextUpstream == BuildUpstream \/ Write

SpecUpstream == InitUpstream /\ [][NextUpstream]_vars

\* ------------------------------------------------------------------ C19

\* The absolute spelling of the output path.
UpAbsolute == Cwd \o UpPath.dir \o <<UpPath.file>>

\* The repositories of the machine that lie above the output path.
Above ==
    { r \in Unwrap(eval).session.git_cache.repositories :
        /\ Len(r.dir) <= Len(UpAbsolute)
        /\ SubSeq(UpAbsolute, 1, Len(r.dir)) = r.dir }

\* The repository nearest to the output path.
Nearest == CHOOSE r \in Above : \A q \in Above : Len(q.dir) <= Len(r.dir)

NotOnDisk == UpPath \notin DOMAIN Unwrap(eval).fs.files
NoRepository == Above = {}
RootElsewhere ==
    /\ Above # {}
    /\ \/ Len(Nearest.root) > Len(UpAbsolute)
       \/ SubSeq(UpAbsolute, 1, Len(Nearest.root)) # Nearest.root
NoBlob ==
    /\ Above # {}
    /\ \/ Nearest.url.host = None
       \/ \A i \in 1..Len(Unwrap(eval).session.providers) :
             \/ Some(Unwrap(eval).session.providers[i].host) # Nearest.url.host
             \/ Unwrap(eval).session.providers[i].blob_path = None

\* One of the steps of building the annotation fails.
UpstreamFails == NotOnDisk \/ NoRepository \/ RootElsewhere \/ NoBlob

\* C19: when the output file is not on disk yet, or no repository lies above
\* it, or the repository's root is not a prefix of its path, or no provider
\* yields a blob link, the Special has no upstream_file and no upstream_repo,
\* and the call of `write` returns Ok all the same: the text is rendered
\* without the annotation, the status is checked and the decision of the
\* table is applied.
C19_NoAnnotationNoError ==
    (eval # None /\ Unwrap(eval).op = "write" /\ UpstreamFails) =>
        LET e == Unwrap(eval)
            bare == prepare(UpPath, UpTheme, UpScheme, UpTemplate,
                            [upstream_file |-> None, upstream_repo |-> None], None)
        IN  /\ e.special # None =>
                /\ Unwrap(e.special).upstream_file = None
                /\ Unwrap(e.special).upstream_repo = None
            /\ e.out # None =>
                /\ Out.ok
                /\ Out.val.status = check(e.session.index, e.fs.files, UpPath,
                                          UpTheme, UpScheme, UpTemplate)
                /\ Out.val.decision = decide(Out.val.status, e.session.write_mode)
                /\ (should_write(Out.val.decision) /\ ~e.session.dry_run) =>
                      Out.val.fs.files[UpPath] = Format(bare)

\* The root of the repository is spelled another way than the path of the
\* file, nothing else is in the way, and the call has written the file.
C19_Witness ==
    /\ Returned("write")
    /\ RootElsewhere
    /\ ~NotOnDisk
    /\ ~NoBlob
    /\ Unwrap(Unwrap(eval).special) = [upstream_file |-> None, upstream_repo |-> None]
    /\ Out.ok
    /\ Out.val.decision = "ForceWrite"
    /\ ~Unwrap(eval).session.dry_run

\* The other ways of failing, and the way of succeeding.
C19_NotOnDisk == Returned("write") /\ NotOnDisk /\ Out.val.decision = "Write"
C19_NoRepository == Returned("write") /\ NoRepository /\ ~NotOnDisk
C19_NoBlob == Returned("write") /\ NoBlob /\ ~NotOnDisk /\ ~RootElsewhere
C19_Annotated ==
    /\ Returned("write")
    /\ ~UpstreamFails
    /\ Unwrap(Unwrap(eval).special).upstream_file # None
    /\ Unwrap(Unwrap(eval).special).upstream_repo # None

\* ------------------------------------------------------------------ C21

\* The text `write` renders in the call under study.
UpOutput ==
    prepare(UpPath, UpTheme, UpScheme, UpTemplate,
            build_upstream(UpPath, Unwrap(eval).session, Unwrap(eval).fs), None)

\* The call under study has inserted an Entry.
Inserted == Returned("write") /\ Out.ok /\ Out.val.log = "generated"

\* C21: when execute inserts an Entry, the file is on disk as the formatter
\* left it and the Entry's render_hash is the hash of exactly that content.
C21_EntryHashIsTheFileOnDisk ==
    Inserted =>
        LET entry == get(Out.val.session.index, UpPath)
            file == ReadFile(Out.val.fs.files, UpPath)
        IN  /\ entry # None
            /\ file = Some(Format(UpOutput))
            /\ Unwrap(entry).render_hash = Hash(Unwrap(file))

\* An Entry was inserted for a file the formatter rewrote.
C21_Witness ==
    /\ Inserted
    /\ Format(UpOutput) # UpOutput
    /\ Unwrap(get(Out.val.session.index, UpPath)).render_hash # Hash(UpOutput)

\* ------------------------------------------------------------------ C23

\* C23: a call of `write` whose decision is Skip or Conflict returns Ok and
\* leaves the disk (files and directories) and the whole Index of the
\* session as they were, in a dry run and in a real one.
C23_SkipAndConflictTouchNothing ==
    /\ Returned("write") => Out.ok
    /\ (Returned("write") /\ Out.ok /\ Out.val.decision \in {"Skip", "Conflict"}) =>
          /\ Out.val.fs = Unwrap(eval).fs
          /\ Out.val.session.index = Unwrap(eval).session.index
          /\ Out.val.log = IF Out.val.decision = "Skip" THEN "skipped" ELSE "conflict"

\* A Conflict over a file that is on disk and differs from the Entry, in a
\* real run.
C23_Witness ==
    /\ Returned("write")
    /\ Out.val.decision = "Conflict"
    /\ ~Unwrap(eval).session.dry_run
    /\ UpPath \in DOMAIN Unwrap(eval).fs.files
    /\ Unwrap(eval).session.index[UpPath].render_hash
          # Hash(Unwrap(eval).fs.files[UpPath])

\* The other cases of C23: a Skip in a real run, and both in a dry run.
C23_Skip ==
    Returned("write") /\ Out.val.decision = "Skip" /\ ~Unwrap(eval).session.dry_run
C23_DrySkip ==
    Returned("write") /\ Out.val.decision = "Skip" /\ Unwrap(eval).session.dry_run
C23_DryConflict ==
    Returned("write") /\ Out.val.decision = "Conflict" /\ Unwrap(eval).session.dry_run

\* ------------------------------------------------------------------ C24

\* C24: the merge of Roles is as long as base and self together; it begins
\* with base's entries in base's order and goes on with self's in self's
\* order; an entry whose key is there already is kept beside the other.
C24_RolesMergeAppends ==
    Returned("Roles") =>
        /\ Len(Out) = Len(Base) + Len(Self)
        /\ \A i \in 1..Len(Base) : Out[i] = Base[i]
        /\ \A j \in 1..Len(Self) : Out[Len(Base) + j] = Self[j]

\* Self and base both assign a role of the same key, to different swatches.
C24_Witness ==
    /\ Returned("Roles")
    /\ Self # <<>>
    /\ Base # <<>>
    /\ \E i \in 1..Len(Base), j \in 1..Len(Self) :
          /\ Base[i].name = Self[j].name
          /\ Base[i].value # Self[j].value
          /\ Out[i] = Base[i]
          /\ Out[Len(Base) + j] = Self[j]

\* ------------------------------------------------------------------ C25

\* C25: the rainbow of an Extra merge is self's list when that has a color
\* and base's list when it has none; it is never both lists joined.
C25_RainbowBySelfEmptiness ==
    Returned("Extra") =>
        /\ Len(Self.rainbow) > 0 => Out.rainbow = Self.rainbow
        /\ Len(Self.rainbow) = 0 => Out.rainbow = Base.rainbow
        /\ Len(Out.rainbow) \in {Len(Self.rainbow), Len(Base.rainbow)}

\* Both lists have colors and differ.
C25_Witness ==
    /\ Returned("Extra")
    /\ Self.rainbow # <<>>
    /\ Base.rainbow # <<>>
    /\ Self.rainbow # Base.rainbow
    /\ Out.rainbow = Self.rainbow

\* Self's list is empty and base's is not.
C25_EmptySelf ==
    Returned("Extra") /\ Self.rainbow = <<>> /\ Base.rainbow # <<>>
        /\ Out.rainbow = Base.rainbow

\* ------------------------------------------------------------------ C28

\* The field of the resolved provider of a host, by the claim: the value the
\* last user provider of the host that sets the field gives it, else the
\* built-in's, else none.
FieldOf(user_providers, host, field) ==
    LET setting == {i \in 1..Len(user_providers) :
                      /\ user_providers[i].host = host
                      /\ user_providers[i][field] # None}
        built_in == {i \in 1..Len(default_providers) :
                       default_providers[i].host = host}
    IN  IF setting # {}
        THEN user_providers[CHOOSE i \in setting : \A j \in setting : j <= i][field]
        ELSE IF built_in # {}
             THEN default_providers[CHOOSE i \in built_in : TRUE][field]
             ELSE None

\* C28: no two providers of the list merge_providers_with_defaults returns
\* have the same host, and each field of a provider is what the last user
\* provider of its host that sets the field says, or the built-in's.
C28_OneProviderPerHost ==
    Returned("providers") =>
        /\ \A i, j \in 1..Len(Out) : Out[i].host = Out[j].host => i = j
        /\ \A i \in 1..Len(Out) :
              \A field \in {"blob_path", "raw_path", "branch"} :
                  Out[i][field] = FieldOf(Self, Out[i].host, field)

\* The user configures one host twice: the second provider sets the branch
\* anew and leaves the blob path to the first.
C28_Witness ==
    /\ Returned("providers")
    /\ Len(Self) = 2
    /\ Self[1].host = Self[2].host
    /\ Self[1].branch = Some("main")
    /\ Self[2].branch = Some("dev")
    /\ Self[1].blob_path # None
    /\ Self[2].blob_path = None
    /\ \E i \in 1..Len(Out) :
          /\ Out[i].host = Self[1].host
          /\ Out[i].branch = Some("dev")
          /\ Out[i].blob_path = Self[1].blob_path

\* ------------------------------------------------------------------ check, applied

\* The output under study is rendered from the first scheme of the theme.
OwnSchemes == {UpScheme, [UpScheme EXCEPT !.body = 2]}

\* What the theme may have become since the output was rendered, around the
\* output's own scheme: nothing else changed, the other scheme edited, the
\* other scheme removed, a scheme added, the config changed or gone, and
\* either of the theme's names changed.
ThemesSince(own) ==
    LET other == UpTheme.schemes[2]
        same == [UpTheme EXCEPT !.schemes = <<own, other>>]
    IN  { same,
          [same EXCEPT !.schemes = <<own, [other EXCEPT !.body = 2]>>],
          [same EXCEPT !.schemes = <<own, [other EXCEPT !.palette = <<>>]>>],
          [same EXCEPT !.schemes = <<own>>],
          [same EXCEPT !.schemes =
              <<own, other, [other EXCEPT !.name = <<"dusk">>]>>],
          [same EXCEPT !.config =
              Some([ThemeConfig EXCEPT !.inherit = TRUE])],
          [same EXCEPT !.config = None],
          [same EXCEPT !.name_ascii = 2],
          [same EXCEPT !.name = <<"grove">>] }

InitStatus ==
    /\ Idle
    /\ \E own \in OwnSchemes, source \in Revs, content \in Contents,
          file \in Option(Contents) :
          \E theme \in ThemesSince(own) :
              eval = Some([op |-> "check", theme |-> theme, scheme |-> own,
                           template |-> [UpTemplate EXCEPT !.source = source],
                           content |-> content, file |-> file,
                           index |-> None, out |-> None])

\* The output was rendered from the theme, scheme and template as they were,
\* and its Entry inserted.
CreateEntry ==
    /\ Pending("check")
    /\ Unwrap(eval).index = None
    /\ eval' = Some([Unwrap(eval) EXCEPT !.index =
          Some(insert(EmptyIndex,
                      create_entry(UpPath, UpTheme, UpScheme, UpTemplate,
                                   Unwrap(eval).content)))])
    /\ UNCHANGED rest

\* Index::check of the output against what the inputs and the file are now.
Check ==
    /\ Pending("check")
    /\ Unwrap(eval).index # None
    /\ LET e == Unwrap(eval)
           disk == IF e.file = None
                   THEN EmptyIndex
                   ELSE write_file(EmptyIndex, UpPath, Unwrap(e.file))
       IN  Returns(check(Unwrap(e.index), disk, UpPath, e.theme, e.scheme,
                         e.template))

NextStatus == CreateEntry \/ Check

SpecStatus == InitStatus /\ [][NextStatus]_vars

\* ------------------------------------------------------------------ C29

\* The file is as the Entry recorded it.
FileKept == Unwrap(eval).file = Some(Unwrap(eval).content)

\* The theme's names, the output's own scheme and the template's source are
\* what the output was rendered from.
OwnInputsKept ==
    /\ Unwrap(eval).theme.name = UpTheme.name
    /\ Unwrap(eval).theme.name_ascii = UpTheme.name_ascii
    /\ Unwrap(eval).scheme = UpScheme
    /\ Unwrap(eval).template.source = UpTemplate.source

\* C29: the status check returns is that of the Entry, the file, the theme's
\* two names, the output's own scheme and the template's source; whatever
\* else of the theme has changed (another scheme, the schemes there are, the
\* config), an output whose file and own inputs are kept is Unchanged, never
\* Stale.
C29_StatusIgnoresTheRestOfTheTheme ==
    Returned("check") =>
        Out = IF ~FileKept THEN "Modified"
              ELSE IF OwnInputsKept THEN "Unchanged" ELSE "Stale"

\* The file and the own inputs are kept while the rest of the theme has
\* changed, and check has answered Unchanged.
C29_Witness ==
    /\ Returned("check")
    /\ FileKept
    /\ OwnInputsKept
    /\ Unwrap(eval).theme.schemes # UpTheme.schemes
    /\ Out = "Unchanged"

\* As C29_Witness, for the config of the theme.
C29_ConfigChanged ==
    /\ Returned("check")
    /\ FileKept
    /\ OwnInputsKept
    /\ Unwrap(eval).theme.config # UpTheme.config
    /\ Out = "Unchanged"

\* ------------------------------------------------------------------ C27

\* C27: the calls of `write` a run has still to make resolve to paths that
\* differ from one another and from the path of the call just made, so no
\* path is written and no Entry replaced twice in one run.
C27_DistinctCallsDistinctPaths ==
    session # None =>
        /\ \A i, j \in 1..Len(queue) :
              i # j => PathOfCall(queue[i]) # PathOfCall(queue[j])
        /\ last # None =>
              \A i \in 1..Len(queue) : PathOfCall(queue[i]) # Unwrap(last).path

\* C27 for the templates whose file name holds every marker they use.
C27_WhenMarkersInFileName ==
    (/\ session # None
     /\ \A k \in 1..Len(templates) :
           LET name == templates[k].name
           IN  /\ Contains(<<name[Len(name)]>>, SCHEME_MARKER)
               /\ Contains(name, SWATCH_MARKER)
                     => Contains(<<name[Len(name)]>>, SWATCH_MARKER)) =>
        /\ \A i, j \in 1..Len(queue) :
              i # j => PathOfCall(queue[i]) # PathOfCall(queue[j])
        /\ last # None =>
              \A i \in 1..Len(queue) : PathOfCall(queue[i]) # Unwrap(last).path

\* ------------------------------------------------------------------ runs

\* The sequence without its i-th element.
Without(seq, i) == SubSeq(seq, 1, i - 1) \o SubSeq(seq, i + 1, Len(seq))

\* Between runs a template is taken out of the templates directory.
DropTemplate(k) ==
    /\ session = None
    /\ templates' = Without(templates, k)
    /\ settled' = FALSE
    /\ UNCHANGED <<files, dirs, persisted, themes, varying, session, queue, last,
                   clean, twin, probe, eval>>

\* Between runs a scheme is taken out of its theme.
DropScheme(t, s) ==
    /\ session = None
    /\ Len(themes[t].schemes) > 1
    /\ themes' = [themes EXCEPT ![t].schemes = Without(@, s)]
    /\ settled' = FALSE
    /\ UNCHANGED <<files, dirs, persisted, templates, varying, session, queue, last,
                   clean, twin, probe, eval>>

\* A project with one template, rendered once per scheme.
InitRuns ==
    /\ files = EmptyIndex
    /\ dirs = create_dir_all({}, ThemesDir)
    /\ persisted = None
    /\ themes = InitialThemes
    /\ templates = <<UpTemplate>>
    /\ varying = "template"
    /\ session = None
    /\ queue = <<>>
    /\ last = None
    /\ clean = FALSE
    /\ settled = FALSE
    /\ twin = None
    /\ probe = None
    /\ eval = None

\* Runs of the tool alone, completed or cut short by an error, over inputs
\* that change between them; nobody else touches the output files.
NextRuns ==
    \/ \E m \in WriteMode, d \in BOOLEAN : StartRun(m, d)
    \/ WriteStep
    \/ \E f \in Faults : WriteFails(f)
    \/ Abort
    \/ Finish
    \/ \E k \in 1..Len(templates), r \in Revs : ChangeTemplate(k, r)
    \/ \E k \in 1..Len(templates) : DropTemplate(k)
    \/ \E t \in 1..Len(themes) : \E s \in 1..Len(themes[t].schemes) : DropScheme(t, s)

SpecRuns == InitRuns /\ [][NextRuns]_vars

\* ------------------------------------------------------------------ C22

\* C22: when nothing but the tool touches the output files, over runs that
\* complete and runs an error cuts short, no call of `write` finds its file
\* Modified.
C22_OwnWritesAreNeverModified ==
    (last # None /\ ~Failed) => Unwrap(last).status # "Modified"

\* ------------------------------------------------------------------ C30

\* The paths the calls of a run over the inputs as they are now resolve to.
LivePaths ==
    LET calls == all_internal(themes, templates)
    IN  {PathOfCall(calls[i]) : i \in 1..Len(calls)}

\* C30: no step of a run, completed or aborted, takes a path out of the
\* persisted Index, out of the Index of the session or off the disk; a
\* session starts from the persisted Index as it is.
C30_IndexAndFilesOnlyGrow ==
    [][/\ DOMAIN load_or_create \subseteq DOMAIN load_or_create'
       /\ (session # None /\ session' # None) =>
             DOMAIN Unwrap(session).index \subseteq DOMAIN Unwrap(session').index
       /\ (session = None /\ session' # None) =>
             Unwrap(session').index = load_or_create
       /\ DOMAIN files \subseteq DOMAIN files']_vars

\* A real run has gone through after a scheme or a template was dropped: the
\* Index it is about to save, the persisted Index and the disk still hold an
\* output no call resolves to any more.
C30_Witness ==
    /\ session # None
    /\ queue = <<>>
    /\ ~Failed
    /\ ~Unwrap(session).dry_run
    /\ \E p \in DOMAIN Unwrap(session).index :
          /\ p \notin LivePaths
          /\ p \in DOMAIN load_or_create
          /\ p \in DOMAIN files

\* ------------------------------------------------------------------ the cache, applied

\* Another repository of the machine, beside the project's.
Elsewhere == << <<"srv">>, <<"dots">> >>

\* The remotes and branches a repository may have.
Remotes ==
    {[host |-> Some(h), owner |-> "jezzy", repo |-> "theymer"] :
        h \in {"github.com", "gitlab.com"}}
Branches == {"main", "dev"}

\* The absolute paths looked up: two files of the project, one of the other
\* repository and one under no repository.
LookedUp ==
    { Cwd \o << <<"a">> >>, Cwd \o << <<"themes">>, <<"b">> >>,
      Elsewhere \o << <<"c">> >>, << <<"tmp">>, <<"d">> >> }

\* How often one run may detect a repository before the model stops counting.
MaxDetections == 2

\* A session has just been made: its cache is new, nothing was detected yet.
InitCache ==
    /\ Idle
    /\ \E url \in Remotes, branch \in Branches :
          eval = Some([op |-> "cache",
                       git_cache |-> NewCache(
                           {[dir |-> Cwd, root |-> Cwd, url |-> url,
                             branch |-> branch],
                            [dir |-> Elsewhere, root |-> Elsewhere, url |-> url,
                             branch |-> branch]}),
                       detections |-> [root \in {Cwd, Elsewhere} |-> 0],
                       step |-> "new", path |-> None, out |-> None])

\* A call of `write` gets as far as git_info_with for the path.
Lookup(path) ==
    /\ eval # None
    /\ Unwrap(eval).op = "cache"
    /\ LET e == Unwrap(eval)
           nearest == nearest_repository(e.git_cache.repositories, path)
           after == remember(e.git_cache, path)
           detected == after.cached # e.git_cache.cached
       IN  /\ detected => e.detections[Unwrap(nearest).root] < MaxDetections
           /\ eval' = Some([e EXCEPT
                  !.git_cache = after,
                  !.detections = IF detected
                                 THEN [@ EXCEPT ![Unwrap(nearest).root] = @ + 1]
                                 ELSE @,
                  !.step = "lookup",
                  !.path = Some(path),
                  !.out = git_info_with(path, e.git_cache)])
    /\ UNCHANGED rest

\* Somebody changes the remote or the branch of a repository during the run.
Checkout(dir, url, branch) ==
    /\ eval # None
    /\ Unwrap(eval).op = "cache"
    /\ LET e == Unwrap(eval)
           now == {IF r.dir = dir
                   THEN [r EXCEPT !.url = url, !.branch = branch]
                   ELSE r : r \in e.git_cache.repositories}
       IN  /\ now # e.git_cache.repositories
           /\ eval' = Some([e EXCEPT !.git_cache.repositories = now,
                                     !.step = "checkout",
                                     !.path = None, !.out = None])
    /\ UNCHANGED rest

\* The run ends and the next begins: Session::new makes a new cache.
NextSession ==
    /\ eval # None
    /\ Unwrap(eval).op = "cache"
    /\ Unwrap(eval).step # "new"
    /\ LET e == Unwrap(eval)
       IN  eval' = Some([e EXCEPT
               !.git_cache = NewCache(e.git_cache.repositories),
               !.detections = [root \in DOMAIN @ |-> 0],
               !.step = "new", !.path = None, !.out = None])
    /\ UNCHANGED rest

NextCache ==
    \/ \E path \in LookedUp : Lookup(path)
    \/ \E dir \in {Cwd, Elsewhere}, url \in Remotes, branch \in Branches :
          Checkout(dir, url, branch)
    \/ NextSession

SpecCache == InitCache /\ [][NextCache]_vars

\* ------------------------------------------------------------------ C26

\* The memory of the cache, and the repository a path lies in.
Cached == Unwrap(eval).git_cache.cached
RepositoryOf(path) ==
    {r \in Unwrap(eval).git_cache.repositories :
        Len(r.dir) <= Len(path) /\ SubSeq(path, 1, Len(r.dir)) = r.dir}

\* C26: the cache of a new session is empty; within a run no step takes a
\* repository out of the memory or changes what is remembered for it; a
\* repository is detected at most once; and a lookup of a path in a
\* remembered repository answers with what is remembered, whatever the
\* repository's remote and branch are by now.
C26_CacheOnlyGrows ==
    [][(eval # None /\ Unwrap(eval).op = "cache") =>
        /\ Unwrap(eval').step = "new" => Unwrap(eval').git_cache.cached = <<>>
        /\ Unwrap(eval').step # "new" =>
              /\ \A root \in DOMAIN Cached :
                    /\ root \in DOMAIN Unwrap(eval').git_cache.cached
                    /\ Unwrap(eval').git_cache.cached[root] = Cached[root]
              /\ \A root \in DOMAIN Unwrap(eval').detections :
                    Unwrap(eval').detections[root] <= 1
        /\ Unwrap(eval').step = "lookup" =>
              \A r \in RepositoryOf(Unwrap(Unwrap(eval').path)) :
                  r.root \in DOMAIN Cached =>
                      /\ Unwrap(eval').out # None
                      /\ Unwrap(Unwrap(eval').out)[1] = Cached[r.root]]_vars

\* A path was looked up in a repository whose remote or branch is not what
\* the cache remembers, and the lookup answered with what it remembers.
C26_Witness ==
    /\ eval # None
    /\ Unwrap(eval).op = "cache"
    /\ Unwrap(eval).step = "lookup"
    /\ Unwrap(eval).out # None
    /\ \E r \in RepositoryOf(Unwrap(Unwrap(eval).path)) :
          /\ r.root \in DOMAIN Cached
          /\ Unwrap(eval).detections[r.root] = 1
          /\ Unwrap(Unwrap(eval).out)[1] = Cached[r.root]
          /\ <<Cached[r.root].url, Cached[r.root].branch>> # <<r.url, r.branch>>

====
